---- MODULE Spec2Model ----
(***************************************************************************)
(* A model of mimchine (src/mimchine): the command handlers of cli.py run  *)
(* against a container runtime, one runtime call per step, and the pure    *)
(* helpers they use.                                                       *)
(*                                                                         *)
(* Strings are sequences of tokens: "/", ":", " ", "~", "." and ".." are   *)
(* tokens of their own and every other token is one run of ordinary        *)
(* characters, so "~/proj:/w" is <<"~","/","proj",":","/","w">>.           *)
(*                                                                         *)
(* The read-only runtime calls (ps, inspect) are taken to succeed; every   *)
(* other runtime call may return a nonzero exit code.                      *)
(***************************************************************************)
EXTENDS Integers, Sequences, FiniteSets, TLC

VARIABLES
    containers,   \* the runtime's containers: name -> [exists, labels, running]
    dataDirs,     \* names whose per-container data directory exists on disk
    cmd,          \* the command of the current invocation
    args,         \* its options
    pc,           \* the handler's position
    locals,       \* the handler's local variables
    trace,        \* runtime calls and filesystem mutations of this invocation
    exitCode,     \* -1 while running, else the process exit code
    pre,          \* containers and dataDirs when the invocation started
    fnIn,         \* input of the pure function under check
    fnOut,        \* its result
    etc,          \* /etc/group and /etc/passwd of a container
    idLog,        \* one entry per run of the docker identity script
    peer          \* a second invocation running at the same time, while it waits

vars == <<containers, dataDirs, cmd, args, pc, locals, trace, exitCode, pre,
          fnIn, fnOut, etc, idLog, peer>>

(***************************************************************************)
(* Bounds                                                                  *)
(***************************************************************************)
MaxMounts == 2
MaxShares == 2
MaxDevices == 1
MaxLines == 2
MaxRuns == 2

BSeq(S, n) == UNION {[1..k -> S] : k \in 0..n}

(***************************************************************************)
(* Strings                                                                 *)
(***************************************************************************)
NoneStr == "<none>"

RECURSIVE LStrip(_)
LStrip(s) == IF s # <<>> /\ Head(s) = " " THEN LStrip(Tail(s)) ELSE s

RECURSIVE RStrip(_)
RStrip(s) ==
    IF s # <<>> /\ s[Len(s)] = " " THEN RStrip(SubSeq(s, 1, Len(s) - 1)) ELSE s

\* str.strip()
Strip(s) == RStrip(LStrip(s))

\* str.startswith("/")
StartsWithSlash(s) == s # <<>> /\ Head(s) = "/"

Contains(s, t) == \E i \in 1..Len(s) : s[i] = t

FirstIndex(s, t) == CHOOSE i \in 1..Len(s) : s[i] = t /\ \A j \in 1..(i - 1) : s[j] # t

\* str.split(t, 1) of a string that contains t
SplitOnce(s, t) ==
    LET i == FirstIndex(s, t)
    IN <<SubSeq(s, 1, i - 1), SubSeq(s, i + 1, Len(s))>>

\* shlex.split on a string without quotes: the maximal runs of non-blank tokens
RECURSIVE ShlexSplit(_)
ShlexSplit(s) ==
    LET t == LStrip(s)
    IN IF t = <<>> THEN <<>>
       ELSE IF Contains(t, " ")
            THEN LET p == SplitOnce(t, " ") IN <<p[1]>> \o ShlexSplit(p[2])
            ELSE <<t>>

RECURSIVE LastIndex(_, _)
LastIndex(s, t) ==
    IF s = <<>> THEN 0
    ELSE IF s[Len(s)] = t THEN Len(s) ELSE LastIndex(SubSeq(s, 1, Len(s) - 1), t)

\* os.path.basename
Basename(s) == SubSeq(s, LastIndex(s, "/") + 1, Len(s))

(***************************************************************************)
(* Host paths                                                              *)
(***************************************************************************)
\* the host's directories and device nodes, by their canonical components
HostPaths ==
    { <<>>, <<"home">>, <<"home", "u">>, <<"home", "u", "proj">>, <<"data">>,
      <<"dev">>, <<"dev", "fuse">> }

\* the host's symbolic links
IsSymlink(p) == p \in { <<"home", "me">>, <<"home", "u", "out">> }

LinkTarget(p) ==
    CASE p = <<"home", "me">> -> <<"home", "u">>
      [] p = <<"home", "u", "out">> -> <<"data">>

HomeEnv == <<"/", "home", "/", "me">>     \* os.environ["HOME"]
HostCwd == <<"/", "home", "/", "u">>      \* os.getcwd()

\* the components of a path string: empty components drop out
Comps(s) == SelectSeq(s, LAMBDA t : t # "/")

RECURSIVE PathStr(_)
PathStr(cs) ==
    IF cs = <<>> THEN <<"/">>
    ELSE IF Len(cs) = 1 THEN <<"/", cs[1]>>
    ELSE PathStr(SubSeq(cs, 1, Len(cs) - 1)) \o <<"/", cs[Len(cs)]>>

\* os.path.expanduser
expanduser(s) ==
    IF s # <<>> /\ Head(s) = "~" /\ (Len(s) = 1 \/ s[2] = "/")
    THEN HomeEnv \o Tail(s)
    ELSE s

RECURSIVE NormComps(_, _)
NormComps(acc, rest) ==
    IF rest = <<>> THEN acc
    ELSE LET c == Head(rest)
         IN IF c = "." THEN NormComps(acc, Tail(rest))
            ELSE IF c = ".."
                 THEN NormComps(IF acc = <<>> THEN acc
                                ELSE SubSeq(acc, 1, Len(acc) - 1), Tail(rest))
                 ELSE NormComps(Append(acc, c), Tail(rest))

\* os.path.abspath: join with the working directory, then normpath;
\* the result as components
abspath(s) ==
    IF StartsWithSlash(s) THEN NormComps(<<>>, Comps(s))
    ELSE NormComps(<<>>, Comps(HostCwd \o <<"/">> \o s))

RECURSIVE Resolve(_, _)
Resolve(prefix, rest) ==
    IF rest = <<>> THEN prefix
    ELSE LET p == Append(prefix, Head(rest))
         IN IF IsSymlink(p) THEN Resolve(LinkTarget(p), Tail(rest))
            ELSE Resolve(p, Tail(rest))

\* os.path.realpath of a normalized absolute path
realpath(cs) == Resolve(<<>>, cs)

normalize_host_path(path) == PathStr(realpath(abspath(expanduser(path))))

\* os.path.exists
path_exists(s) == realpath(abspath(s)) \in HostPaths

RECURSIVE CommonPrefix(_, _)
CommonPrefix(a, b) ==
    IF a = <<>> \/ b = <<>> \/ Head(a) # Head(b) THEN <<>>
    ELSE <<Head(a)>> \o CommonPrefix(Tail(a), Tail(b))

\* os.path.commonpath of two absolute paths
commonpath(a, b) == PathStr(CommonPrefix(Comps(a), Comps(b)))

RECURSIVE JoinComps(_)
JoinComps(cs) ==
    IF cs = <<>> THEN <<>>
    ELSE IF Len(cs) = 1 THEN cs
    ELSE <<Head(cs), "/">> \o JoinComps(Tail(cs))

\* os.path.relpath of two absolute paths
relpath(path, start) ==
    LET p == Comps(path)
        st == Comps(start)
        i == Len(CommonPrefix(p, st))
        ups == [k \in 1..(Len(st) - i) |-> ".."]
        rel == ups \o SubSeq(p, i + 1, Len(p))
    IN IF rel = <<>> THEN <<".">> ELSE JoinComps(rel)

\* posixpath.join
posixpath_join(a, b) ==
    IF StartsWithSlash(b) THEN b
    ELSE IF a = <<>> \/ a[Len(a)] = "/" THEN a \o b
    ELSE a \o <<"/">> \o b

(***************************************************************************)
(* Mount planning and input validation of create                           *)
(***************************************************************************)
Ok(v) == [ok |-> TRUE, value |-> v, error |-> ""]
Fail(e) == [ok |-> FALSE, value |-> <<>>, error |-> e]

Elems(seq) == {seq[i] : i \in 1..Len(seq)}

get_home_dir == HomeEnv

\* a bug: a share outside the user's home directory is not skipped
HomeShareStep_uncontained(mount_pairs, home_share_input, user_home_dir, image_home_dir) ==
    LET src == normalize_host_path(home_share_input)
        home_share_pair == <<src, src>>
        withId == IF home_share_pair \in Elems(mount_pairs) THEN mount_pairs
                  ELSE Append(mount_pairs, home_share_pair)
        rel == relpath(src, user_home_dir)
        target == IF rel = <<".">> THEN image_home_dir
                  ELSE posixpath_join(image_home_dir, rel)
        tilde_pair == <<src, target>>
    IN IF ~path_exists(src) THEN mount_pairs
       ELSE IF tilde_pair[2] # tilde_pair[1] /\ tilde_pair \notin Elems(withId)
            THEN Append(withId, tilde_pair)
            ELSE withId

\* a bug: the tilde target is joined with the absolute source path
HomeShareStep_absolute_target(mount_pairs, home_share_input, user_home_dir, image_home_dir) ==
    LET src == normalize_host_path(home_share_input)
        home_share_pair == <<src, src>>
        withId == IF home_share_pair \in Elems(mount_pairs) THEN mount_pairs
                  ELSE Append(mount_pairs, home_share_pair)
        target == posixpath_join(image_home_dir, src)
        tilde_pair == <<src, target>>
    IN IF ~path_exists(src) THEN mount_pairs
       ELSE IF commonpath(src, user_home_dir) # user_home_dir THEN mount_pairs
       ELSE IF tilde_pair[2] # tilde_pair[1] /\ tilde_pair \notin Elems(withId)
            THEN Append(withId, tilde_pair)
            ELSE withId

\* one iteration of the loop of _get_home_share_mount_pairs
HomeShareStep(mount_pairs, home_share_input, user_home_dir, image_home_dir) ==
    LET src == normalize_host_path(home_share_input)
        home_share_pair == <<src, src>>
        withId == IF home_share_pair \in Elems(mount_pairs) THEN mount_pairs
                  ELSE Append(mount_pairs, home_share_pair)
        rel == relpath(src, user_home_dir)
        target == IF rel = <<".">> THEN image_home_dir
                  ELSE posixpath_join(image_home_dir, rel)
        tilde_pair == <<src, target>>
    IN IF ~path_exists(src) THEN mount_pairs
       ELSE IF commonpath(src, user_home_dir) # user_home_dir THEN mount_pairs
       ELSE IF tilde_pair[2] # tilde_pair[1] /\ tilde_pair \notin Elems(withId)
            THEN Append(withId, tilde_pair)
            ELSE withId

RECURSIVE HomeShareLoop(_, _, _, _)
HomeShareLoop(mount_pairs, home_shares, user_home_dir, image_home_dir) ==
    IF home_shares = <<>> THEN mount_pairs
    ELSE HomeShareLoop(
             HomeShareStep(mount_pairs, Head(home_shares), user_home_dir,
                           image_home_dir),
             Tail(home_shares), user_home_dir, image_home_dir)

\* _get_home_share_mount_pairs, given what resolve_image_home returns
get_home_share_mount_pairs(home_shares, image_home_dir) ==
    IF Len(home_shares) = 0 THEN <<>>
    ELSE HomeShareLoop(<<>>, home_shares, normalize_host_path(get_home_dir),
                       image_home_dir)

\* a bug: the host source is not checked for existence
ParseCustomMount_unchecked_host(custom_mount) ==
    IF ~Contains(custom_mount, ":") THEN Fail("InvalidMountSpec:format")
    ELSE LET parts == SplitOnce(custom_mount, ":")
             host_path_expanded == normalize_host_path(parts[1])
             container_path == Strip(parts[2])
         IN IF Len(container_path) = 0 THEN Fail("InvalidMountSpec:empty")
            ELSE IF ~StartsWithSlash(container_path)
                 THEN Fail("InvalidMountSpec:relative")
            ELSE Ok(<<host_path_expanded, container_path>>)

\* the body of the loop of _parse_custom_mount_specs
ParseCustomMount(custom_mount) ==
    IF ~Contains(custom_mount, ":") THEN Fail("InvalidMountSpec:format")
    ELSE LET parts == SplitOnce(custom_mount, ":")
             host_path_expanded == normalize_host_path(parts[1])
             container_path == Strip(parts[2])
         IN IF ~path_exists(host_path_expanded)
            THEN Fail("InvalidMountSpec:host")
            ELSE IF Len(container_path) = 0 THEN Fail("InvalidMountSpec:empty")
            ELSE IF ~StartsWithSlash(container_path)
                 THEN Fail("InvalidMountSpec:relative")
            ELSE Ok(<<host_path_expanded, container_path>>)

\* the loop of _parse_custom_mount_specs: the first rejected spec ends it
RECURSIVE CustomMountLoop(_, _)
CustomMountLoop(custom_mounts, parsed_mounts) ==
    IF custom_mounts = <<>> THEN Ok(parsed_mounts)
    ELSE LET r == ParseCustomMount(Head(custom_mounts))
         IN IF ~r.ok THEN r
            ELSE CustomMountLoop(Tail(custom_mounts), Append(parsed_mounts, r.value))

parse_custom_mount_specs(custom_mounts) == CustomMountLoop(custom_mounts, <<>>)

\* the body of the loop of _parse_device_specs
ParseDevice(device_spec_input) ==
    LET device_spec == Strip(device_spec_input)
        host_part == IF Contains(device_spec, ":")
                     THEN SplitOnce(device_spec, ":")[1] ELSE device_spec
        host_device_path == normalize_host_path(Strip(host_part))
    IN IF Len(device_spec) = 0 THEN Fail("InvalidDeviceSpec:empty")
       ELSE IF ~path_exists(host_device_path) THEN Fail("InvalidDeviceSpec:host")
       ELSE Ok(device_spec)

\* the loop of _parse_device_specs: the first rejected spec ends it
RECURSIVE DeviceLoop(_, _)
DeviceLoop(devices, parsed_devices) ==
    IF devices = <<>> THEN Ok(parsed_devices)
    ELSE LET r == ParseDevice(Head(devices))
         IN IF ~r.ok THEN r
            ELSE DeviceLoop(Tail(devices), Append(parsed_devices, r.value))

parse_device_specs(devices) == DeviceLoop(devices, <<>>)

\* an Optional[str]
None == [some |-> FALSE, val |-> <<>>]
Some(s) == [some |-> TRUE, val |-> s]

parse_keepalive_args(keepalive_command) ==
    IF ~keepalive_command.some THEN Ok(<<>>)
    ELSE LET keepalive_args == ShlexSplit(keepalive_command.val)
         IN IF Len(keepalive_args) = 0 THEN Fail("EmptyKeepaliveCommand")
            ELSE Ok(keepalive_args)

(***************************************************************************)
(* The runtime's containers                                                *)
(***************************************************************************)
ContainerNames == {"box", "ghost"}
ExistingImages == {"box"}
Runtimes == {"podman", "docker"}

Absent == [exists |-> FALSE, labels |-> {}, running |-> FALSE]
MimLabels == {<<"mim", "1">>}

\* containers this tool did not create
ForeignContainers ==
    { [exists |-> TRUE, labels |-> {}, running |-> FALSE],
      [exists |-> TRUE, labels |-> {<<"mim", "0">>}, running |-> TRUE] }

\* dict.get(key) on a label mapping held as a set of <<key, value>> pairs
LabelGet(labels, key) ==
    IF \E kv \in labels : kv[1] = key
    THEN (CHOOSE kv \in labels : kv[1] = key)[2]
    ELSE NoneStr

container_exists(name) == containers[name].exists

container_is_running(name) ==
    IF ~containers[name].exists THEN FALSE ELSE containers[name].running

\* a bug: any existing container counts as a mim container
container_is_mim_unlabelled(name) == containers[name].exists

container_is_mim(name) ==
    IF ~containers[name].exists THEN FALSE
    ELSE LabelGet(containers[name].labels, "mim") = "1"

(***************************************************************************)
(* The trace of one invocation                                             *)
(***************************************************************************)
NoPath == <<NoneStr>>

Call(op) ==
    [op |-> op, kind |-> "", user |-> "", env |-> <<>>, workdir |-> NoPath,
     binds |-> <<>>, devices |-> <<>>, labels |-> {}, timeout |-> "",
     container |-> NoneStr, argv |-> <<>>, output |-> <<>>, ok |-> TRUE]

On(op, name) == [Call(op) EXCEPT !.container = name]

Exec(kind, user) == [Call("exec") EXCEPT !.kind = kind, !.user = user]

Ops(t) == {t[i].op : i \in 1..Len(t)}

MutatingOps == {"build", "create", "start", "stop", "rm", "exec", "makedirs", "rmtree"}

NoLocals ==
    [shell_as_root |-> FALSE, shell_home_dir |-> NoPath, shell_env |-> <<>>,
     container_cwd |-> NoPath, shell_command_args |-> <<>>,
     container_env |-> [HOST_HOME |-> <<>>, HOME |-> <<>>, MIM_ZDOTDIR |-> <<>>],
     resolved_username |-> NoneStr, error |-> "",
     container_name |-> NoneStr,
     raw |-> <<>>, keepalive_args |-> <<>>, custom_mount_specs |-> <<>>,
     device_specs |-> <<>>, home_share_mount_pairs |-> <<>>]

NoArgs ==
    [container_name |-> NoneStr, runtime |-> "podman", force |-> FALSE,
     as_root |-> FALSE, as_user |-> FALSE, shell |-> <<>>,
     image_name |-> NoneStr, integrate_home |-> FALSE, timeout |-> "10"]

\* no second invocation
NoPeer ==
    [cmd |-> "none", args |-> NoArgs, pc |-> "idle", locals |-> NoLocals,
     trace |-> <<>>, exitCode |-> -1,
     pre |-> [containers |-> [n \in ContainerNames |-> Absent], dataDirs |-> {}]]

\* the pure-function and identity-script variables are not used by the handlers
UnusedByHandlers == UNCHANGED <<fnIn, fnOut, etc, idLog, peer>>

\* raise typer.Exit(code), or return from the handler (code 0)
Exit(code, error) ==
    /\ pc' = "done"
    /\ exitCode' = code
    /\ locals' = [locals EXCEPT !.error = error]

Goto(label) == pc' = label /\ UNCHANGED <<exitCode, locals>>

\* go on with the local variables l
Step(label, l) == pc' = label /\ locals' = l /\ UNCHANGED exitCode

ExitWith(code, error, l) ==
    /\ pc' = "done"
    /\ exitCode' = code
    /\ locals' = [l EXCEPT !.error = error]

Emit(call) == trace' = Append(trace, call)

WorldUnchanged == UNCHANGED <<containers, dataDirs>>

Frame == UNCHANGED <<cmd, args, pre>> /\ UnusedByHandlers

(***************************************************************************)
(* Starting a command                                                      *)
(***************************************************************************)
Begin(c, a, first) ==
    /\ pc = "idle"
    /\ cmd' = c
    /\ args' = a
    /\ pc' = first
    /\ locals' = [NoLocals EXCEPT !.container_name = a.container_name]
    /\ trace' = <<>>
    /\ exitCode' = -1
    /\ pre' = [containers |-> containers, dataDirs |-> dataDirs]
    /\ WorldUnchanged
    /\ UnusedByHandlers

\* the process ends: its exit code is handed to the caller and its memory is gone
Terminate ==
    /\ pc = "done"
    /\ pc' = "idle"
    /\ cmd' = "none"
    /\ args' = NoArgs
    /\ locals' = NoLocals
    /\ trace' = <<>>
    /\ exitCode' = -1
    /\ pre' = [containers |-> containers, dataDirs |-> dataDirs]
    /\ WorldUnchanged
    /\ UnusedByHandlers

InvokeDestroy ==
    \E n \in ContainerNames, r \in Runtimes, f \in BOOLEAN :
        Begin("destroy",
              [NoArgs EXCEPT !.container_name = n, !.runtime = r, !.force = f],
              "require_exists")

InvokeStart ==
    \E n \in ContainerNames, r \in Runtimes :
        Begin("start", [NoArgs EXCEPT !.container_name = n, !.runtime = r],
              "require_exists")

\* str(timeout) for the values of --timeout: the default and another
StopTimeouts == {"10", "0"}

InvokeStop ==
    \E n \in ContainerNames, r \in Runtimes, t \in StopTimeouts :
        Begin("stop", [NoArgs EXCEPT !.container_name = n, !.runtime = r,
                                     !.timeout = t],
              "require_exists")

(***************************************************************************)
(* _require_mim_container                                                  *)
(***************************************************************************)
AfterRequire ==
    CASE cmd = "destroy" -> "destroy_running"
      [] cmd = "shell" -> "shell_running"
      [] cmd = "start" -> "start_running"
      [] cmd = "stop" -> "stop_running"

require_exists ==
    /\ pc = "require_exists"
    /\ Emit(Call("ps"))
    /\ IF ~container_exists(args.container_name)
       THEN Exit(1, "ContainerNotFound")
       ELSE Goto("require_mim")
    /\ WorldUnchanged /\ Frame

require_mim ==
    /\ pc = "require_mim"
    /\ Emit(Call("ps"))
    /\ IF ~container_is_mim(args.container_name)
       THEN Exit(1, "NotAMimContainer")
       ELSE Goto(AfterRequire)
    /\ WorldUnchanged /\ Frame

(***************************************************************************)
(* destroy                                                                 *)
(***************************************************************************)
\* a bug: a running container is stopped whether or not --force is given
destroy_running_forced ==
    /\ pc = "destroy_running"
    /\ Emit(Call("ps"))
    /\ IF container_is_running(args.container_name)
       THEN Goto("destroy_stop")
       ELSE Goto("destroy_rmtree")
    /\ WorldUnchanged /\ Frame

destroy_running ==
    /\ pc = "destroy_running"
    /\ Emit(Call("ps"))
    /\ IF container_is_running(args.container_name)
       THEN IF args.force THEN Goto("destroy_stop")
            ELSE Exit(1, "ContainerRunning")
       ELSE Goto("destroy_rmtree")
    /\ WorldUnchanged /\ Frame

\* the runtime's stop: exit code 0 leaves the container stopped
RuntimeStop(name, ok) ==
    IF ok /\ containers[name].exists
    THEN [containers EXCEPT ![name].running = FALSE]
    ELSE containers

\* a bug: destroy goes on after a failed stop
destroy_stop_unchecked ==
    /\ pc = "destroy_stop"
    /\ \E ok \in BOOLEAN :
        /\ Emit([Call("stop") EXCEPT !.timeout = "1", !.ok = ok])
        /\ containers' = RuntimeStop(args.container_name, ok)
        /\ Goto("destroy_rmtree")
    /\ UNCHANGED dataDirs /\ Frame

destroy_stop ==
    /\ pc = "destroy_stop"
    /\ \E ok \in BOOLEAN :
        /\ Emit([Call("stop") EXCEPT !.timeout = "1", !.ok = ok])
        /\ containers' = RuntimeStop(args.container_name, ok)
        /\ IF ok THEN Goto("destroy_rmtree") ELSE Exit(1, "CommandFailed")
    /\ UNCHANGED dataDirs /\ Frame

\* a bug: a data directory that is already gone ends the command
destroy_rmtree_strict ==
    /\ pc = "destroy_rmtree"
    /\ Emit(Call("rmtree"))
    /\ dataDirs' = dataDirs \ {args.container_name}
    /\ IF args.container_name \in dataDirs THEN Goto("destroy_rm")
       ELSE Exit(1, "FileNotFoundError")
    /\ UNCHANGED containers /\ Frame

destroy_rmtree ==
    /\ pc = "destroy_rmtree"
    /\ Emit(Call("rmtree"))
    /\ dataDirs' = dataDirs \ {args.container_name}
    /\ Goto("destroy_rm")
    /\ UNCHANGED containers /\ Frame

\* the runtime's rm (without -f): removes a container that is not running
RuntimeRm(name, ok) ==
    IF ok THEN [containers EXCEPT ![name] = Absent] ELSE containers

destroy_rm ==
    /\ pc = "destroy_rm"
    /\ \E ok \in BOOLEAN :
        /\ ok => ~container_is_running(args.container_name)
        /\ Emit([Call("rm") EXCEPT !.ok = ok])
        /\ containers' = RuntimeRm(args.container_name, ok)
        /\ IF ok THEN Exit(0, "") ELSE Exit(1, "CommandFailed")
    /\ UNCHANGED dataDirs /\ Frame

(***************************************************************************)
(* start, stop                                                             *)
(***************************************************************************)
\* the runtime's start: exit code 0 starts the container's command, which may
\* exit at once and leave the container not running
RuntimeStart(name, ok, stays) ==
    IF ok /\ containers[name].exists
    THEN [containers EXCEPT ![name].running = stays]
    ELSE containers

\* a bug: start is issued whether or not the container is running
start_running_unchecked ==
    /\ pc = "start_running"
    /\ Emit(Call("ps"))
    /\ Goto("start_start")
    /\ WorldUnchanged /\ Frame

start_running ==
    /\ pc = "start_running"
    /\ Emit(Call("ps"))
    /\ IF container_is_running(args.container_name)
       THEN Exit(0, "")
       ELSE Goto("start_start")
    /\ WorldUnchanged /\ Frame

start_start ==
    /\ pc = "start_start"
    /\ \E ok \in BOOLEAN, stays \in BOOLEAN :
        /\ Emit([Call("start") EXCEPT !.ok = ok])
        /\ containers' = RuntimeStart(args.container_name, ok, stays)
        /\ IF ok THEN Exit(0, "") ELSE Exit(1, "CommandFailed")
    /\ UNCHANGED dataDirs /\ Frame

stop_running ==
    /\ pc = "stop_running"
    /\ Emit(Call("ps"))
    /\ IF ~container_is_running(args.container_name)
       THEN Exit(0, "")
       ELSE Goto("stop_stop")
    /\ WorldUnchanged /\ Frame

stop_stop ==
    /\ pc = "stop_stop"
    /\ \E ok \in BOOLEAN :
        /\ Emit([Call("stop") EXCEPT !.timeout = args.timeout, !.ok = ok])
        /\ containers' = RuntimeStop(args.container_name, ok)
        /\ IF ok THEN Exit(0, "") ELSE Exit(1, "CommandFailed")
    /\ UNCHANGED dataDirs /\ Frame

(***************************************************************************)
(* create                                                                  *)
(***************************************************************************)
ImageNames == {"box", "ghost"}

KeepaliveInputs == {None, Some(<<>>), Some(<<"sleep", " ", "inf">>)}

MountSpecInputs ==
    { <<"~", "/", "proj", ":", "/", "w">>,
      <<"out", ":", " ", "/", "d", " ">>,
      <<"/", "data">>,
      <<"/", "nope", ":", "/", "w">>,
      <<"/", "data", ":", " ">>,
      <<"/", "data", ":", "w">> }

DeviceInputs ==
    { <<" ", "/", "dev", "/", "fuse", ":", "/", "dev", "/", "f">>,
      <<" ">>,
      <<"/", "dev", "/", "nope">> }

ShareInputs ==
    { <<"~">>, <<"~", "/", "proj">>, <<"/", "data">>, <<"~", "/", "out">>,
      <<"~", "/", "nope">> }

\* what resolve_image_home can return
ImageHomes == { <<"/", "root">>, <<"/", "home", "/", "u">>, <<"/", "home", "/", "dev">> }

\* build: one runtime call; the image it makes is outside the modelled state
InvokeBuild ==
    \E r \in Runtimes, image_name \in ImageNames :
        Begin("build", [NoArgs EXCEPT !.runtime = r, !.image_name = image_name],
              "build_build")

build_build ==
    /\ pc = "build_build"
    /\ \E ok \in BOOLEAN :
        /\ Emit([Call("build") EXCEPT !.ok = ok])
        /\ IF ok THEN Exit(0, "") ELSE Exit(1, "CommandFailed")
    /\ WorldUnchanged /\ Frame

InvokeCreate ==
    \E i \in ImageNames, n \in {NoneStr, "box"}, r \in Runtimes, ih \in BOOLEAN :
        Begin("create",
              [NoArgs EXCEPT !.image_name = i, !.container_name = n, !.runtime = r,
                             !.integrate_home = ih],
              "create_exists")

\* a bug: create goes on although the name is taken
create_exists_unchecked ==
    /\ pc = "create_exists"
    /\ LET container_name == IF args.container_name = NoneStr THEN args.image_name
                             ELSE args.container_name
           l == [locals EXCEPT !.container_name = container_name]
       IN /\ Emit(Call("ps"))
          /\ Step("create_image", l)
    /\ WorldUnchanged /\ Frame

create_exists ==
    /\ pc = "create_exists"
    /\ LET container_name == IF args.container_name = NoneStr THEN args.image_name
                             ELSE args.container_name
           l == [locals EXCEPT !.container_name = container_name]
       IN /\ Emit(Call("ps"))
          /\ IF container_exists(container_name)
             THEN ExitWith(1, "ContainerExists", l)
             ELSE Step("create_image", l)
    /\ WorldUnchanged /\ Frame

\* image_exists: `image exists` on podman, `image inspect` on docker
image_exists(image_name) == image_name \in ExistingImages

\* a bug: the data directory is made before the inputs are validated
create_image_makedirs_first ==
    /\ pc = "create_image"
    /\ IF ~image_exists(args.image_name)
       THEN /\ Emit(Call(IF args.runtime = "podman" THEN "image_exists" ELSE "image_inspect"))
            /\ Exit(1, "ImageNotFound")
            /\ UNCHANGED dataDirs
       ELSE /\ trace' = trace \o <<Call(IF args.runtime = "podman" THEN "image_exists"
                                        ELSE "image_inspect"),
                                   On("makedirs", locals.container_name)>>
            /\ dataDirs' = dataDirs \cup {locals.container_name}
            /\ Goto("create_keepalive")
    /\ UNCHANGED containers /\ Frame

create_image ==
    /\ pc = "create_image"
    /\ Emit(Call(IF args.runtime = "podman" THEN "image_exists" ELSE "image_inspect"))
    /\ IF ~image_exists(args.image_name)
       THEN Exit(1, "ImageNotFound")
       ELSE Goto("create_keepalive")
    /\ WorldUnchanged /\ Frame

\* _parse_create_inputs runs the four parsers in this order; each option's
\* value is drawn where its parser first reads it and held in locals.raw
\* until the next parser runs
create_keepalive ==
    /\ pc = "create_keepalive"
    /\ \E keepalive_command \in KeepaliveInputs :
        LET r == parse_keepalive_args(keepalive_command)
            l == [locals EXCEPT !.raw = <<keepalive_command>>,
                                !.keepalive_args = r.value]
        IN IF r.ok THEN Step("create_mounts", l) ELSE ExitWith(1, r.error, l)
    /\ UNCHANGED trace /\ WorldUnchanged /\ Frame

create_mounts ==
    /\ pc = "create_mounts"
    /\ \E custom_mounts \in BSeq(MountSpecInputs, MaxMounts) :
        LET r == parse_custom_mount_specs(custom_mounts)
            l == [locals EXCEPT !.raw = custom_mounts,
                                !.custom_mount_specs = r.value]
        IN IF r.ok THEN Step("create_devices", l) ELSE ExitWith(1, r.error, l)
    /\ UNCHANGED trace /\ WorldUnchanged /\ Frame

create_devices ==
    /\ pc = "create_devices"
    /\ \E devices \in BSeq(DeviceInputs, MaxDevices) :
        LET r == parse_device_specs(devices)
            l == [locals EXCEPT !.raw = devices, !.device_specs = r.value]
        IN IF r.ok THEN Step("create_shares", l) ELSE ExitWith(1, r.error, l)
    /\ UNCHANGED trace /\ WorldUnchanged /\ Frame

create_shares ==
    /\ pc = "create_shares"
    /\ \E home_shares \in BSeq(ShareInputs, MaxShares), image_home_dir \in ImageHomes :
        /\ Len(home_shares) = 0 => image_home_dir = <<"/", "root">>
        /\ Step("create_makedirs",
                [locals EXCEPT
                    !.raw = <<>>,
                    !.home_share_mount_pairs =
                        get_home_share_mount_pairs(home_shares, image_home_dir)])
    /\ UNCHANGED trace /\ WorldUnchanged /\ Frame

create_makedirs ==
    /\ pc = "create_makedirs"
    /\ Emit(On("makedirs", locals.container_name))
    /\ dataDirs' = dataDirs \cup {locals.container_name}
    /\ Goto("create_create")
    /\ UNCHANGED containers /\ Frame

\* the -v options of the runtime's create, in the order they are added
CreateBinds ==
    (IF args.integrate_home THEN << <<HomeEnv, <<"/", "mim", "/", "home", "/", "u">>>> >>
     ELSE <<>>)
    \o locals.home_share_mount_pairs \o locals.custom_mount_specs

\* the runtime's create: exit code 0 leaves a created, not running container
RuntimeCreate(name, labels, ok) ==
    IF ok THEN [containers EXCEPT ![name] =
                   [exists |-> TRUE, labels |-> labels, running |-> FALSE]]
    ELSE containers

create_create ==
    /\ pc = "create_create"
    /\ \E ok \in BOOLEAN :
        /\ Emit([On("create", locals.container_name) EXCEPT
                    !.binds = CreateBinds, !.devices = locals.device_specs,
                    !.labels = MimLabels, !.argv = locals.keepalive_args,
                    !.ok = ok])
        /\ containers' = RuntimeCreate(locals.container_name, MimLabels, ok)
        /\ IF ok THEN Exit(0, "") ELSE Exit(1, "CommandFailed")
    /\ UNCHANGED dataDirs /\ Frame

(***************************************************************************)
(* shell                                                                   *)
(***************************************************************************)
CONTAINER_HOME_DIR == <<"/", "root">>
CONTAINER_SHELL_HISTORY_DIR == <<"/", "mim", "/", "history">>
SHELL_USER_ROOT == "root"
HostUserArg == "uid:gid"     \* f"{os.getuid()}:{os.getgid()}"

ShellInputs == { <<"zsh", " ", "-l">>, <<"bash">>, <<"sh">>, <<>> }

\* what map_host_path_to_container can return for the working directory
ContainerCwds == { NoPath, <<"/", "mim", "/", "home", "/", "u", "/", "proj">> }

\* what resolve_container_shell_user can return
ShellUserLabels == { NoneStr, SHELL_USER_ROOT, "user" }

HostHomeValues == { <<>>, <<" ">>, <<"/", "mim", "/", "home", "/", "u">> }
HomeValues ==
    { <<>>, <<" ">>, <<"/">>, <<"/", "root">>, <<"/", "home", "/", "u">>, <<"home">> }
ProbedHomes == { <<>>, <<" ">>, <<"/", "root">>, <<"/", "home", "/", "u">> }
ZdotdirValues == { <<>>, <<" ">>, <<"/", "etc", "/", "zsh">> }
ResolvedUsernames == { NoneStr, "u", "mimuser1000" }

InvokeShell ==
    \E n \in ContainerNames, r \in Runtimes, ar \in BOOLEAN, au \in BOOLEAN,
       sh \in ShellInputs :
        Begin("shell",
              [NoArgs EXCEPT !.container_name = n, !.runtime = r, !.as_root = ar,
                             !.as_user = au, !.shell = sh],
              "require_exists")

shell_running ==
    /\ pc = "shell_running"
    /\ Emit(Call("ps"))
    /\ IF ~container_is_running(args.container_name)
       THEN Goto("shell_start")
       ELSE Goto("shell_running2")
    /\ WorldUnchanged /\ Frame

shell_start ==
    /\ pc = "shell_start"
    /\ \E ok \in BOOLEAN, stays \in BOOLEAN :
        /\ Emit([Call("start") EXCEPT !.ok = ok])
        /\ containers' = RuntimeStart(args.container_name, ok, stays)
        /\ IF ok THEN Goto("shell_running2") ELSE Exit(1, "CommandFailed")
    /\ UNCHANGED dataDirs /\ Frame

\* a bug: the running state is not checked again after start
shell_running2_unchecked ==
    /\ pc = "shell_running2"
    /\ Emit(Call("ps"))
    /\ Goto("shell_mounts")
    /\ WorldUnchanged /\ Frame

shell_running2 ==
    /\ pc = "shell_running2"
    /\ Emit(Call("ps"))
    /\ IF ~container_is_running(args.container_name)
       THEN Exit(1, "CouldNotBeStarted")
       ELSE Goto("shell_mounts")
    /\ WorldUnchanged /\ Frame

\* get_container_mounts and map_host_path_to_container
shell_mounts ==
    /\ pc = "shell_mounts"
    /\ Emit(Call("inspect"))
    /\ \E container_cwd \in ContainerCwds :
        Step("shell_user", [locals EXCEPT !.container_cwd = container_cwd])
    /\ WorldUnchanged /\ Frame

\* _resolve_shell_as_root, given what resolve_container_shell_user returns
resolve_shell_as_root(as_root, as_user, shell_user) ==
    IF as_root /\ as_user THEN Fail("RootAndUser")
    ELSE IF as_root THEN Ok(TRUE)
    ELSE IF as_user THEN Ok(FALSE)
    ELSE IF shell_user = SHELL_USER_ROOT THEN Ok(TRUE)
    ELSE Ok(FALSE)

shell_user ==
    /\ pc = "shell_user"
    /\ \E shell_user_label \in ShellUserLabels :
        /\ (args.as_root \/ args.as_user) => shell_user_label = NoneStr
        /\ LET r == resolve_shell_as_root(args.as_root, args.as_user, shell_user_label)
           IN /\ IF r.ok THEN Step("shell_home", [locals EXCEPT !.shell_as_root = r.value])
                 ELSE Exit(1, r.error)
              /\ IF args.as_root \/ args.as_user THEN UNCHANGED trace
                 ELSE Emit(Call("inspect"))
    /\ WorldUnchanged /\ Frame

\* a bug: HOME is preferred to HOST_HOME
EnvHome_home_first(container_env) ==
    IF Strip(container_env.HOME) # <<>> THEN Strip(container_env.HOME)
    ELSE IF Strip(container_env.HOST_HOME) # <<>> THEN Strip(container_env.HOST_HOME)
    ELSE <<>>

\* get_shell_home_dir up to the probe: the home, or <<>> when the probe decides
EnvHome(container_env) ==
    IF Strip(container_env.HOST_HOME) # <<>> THEN Strip(container_env.HOST_HOME)
    ELSE IF Strip(container_env.HOME) # <<>> THEN Strip(container_env.HOME)
    ELSE <<>>

shell_home ==
    /\ pc = "shell_home"
    /\ IF locals.shell_as_root
       THEN /\ Step("shell_split", [locals EXCEPT !.shell_home_dir = CONTAINER_HOME_DIR])
            /\ UNCHANGED trace
       ELSE /\ Emit([Call("inspect") EXCEPT !.kind = "env"])
            /\ \E hh \in HostHomeValues, h \in HomeValues :
                LET container_env == [locals.container_env EXCEPT !.HOST_HOME = hh, !.HOME = h]
                    l == [locals EXCEPT !.container_env = container_env]
                IN IF EnvHome(container_env) # <<>>
                   THEN Step("shell_split", [l EXCEPT !.shell_home_dir = EnvHome(container_env)])
                   ELSE Step("shell_home_probe", l)
    /\ WorldUnchanged /\ Frame

\* a bug: a home that cannot be found is silently replaced by /tmp
shell_home_probe_tmp_fallback ==
    /\ pc = "shell_home_probe"
    /\ \E ok \in BOOLEAN, output \in ProbedHomes :
        /\ ~ok => output = <<>>
        /\ Emit([Exec("probe_home", "") EXCEPT !.output = output, !.ok = ok])
        /\ LET default_home == IF ok THEN Strip(output) ELSE <<>>
           IN IF default_home # <<>>
              THEN Step("shell_split", [locals EXCEPT !.shell_home_dir = default_home])
              ELSE Step("shell_split", [locals EXCEPT !.shell_home_dir = <<"/", "tmp">>])
    /\ WorldUnchanged /\ Frame

\* probe_container_default_home, and the end of get_shell_home_dir
shell_home_probe ==
    /\ pc = "shell_home_probe"
    /\ \E ok \in BOOLEAN, output \in ProbedHomes :
        /\ ~ok => output = <<>>
        /\ Emit([Exec("probe_home", "") EXCEPT !.output = output, !.ok = ok])
        /\ LET default_home == IF ok THEN Strip(output) ELSE <<>>
           IN IF default_home # <<>>
              THEN Step("shell_split", [locals EXCEPT !.shell_home_dir = default_home])
              ELSE Exit(1, "NoNonRootHome")
    /\ WorldUnchanged /\ Frame

shell_split ==
    /\ pc = "shell_split"
    /\ LET shell_command_args == ShlexSplit(args.shell)
           l == [locals EXCEPT !.shell_command_args = shell_command_args]
       IN IF Len(shell_command_args) = 0 THEN ExitWith(1, "EmptyShellCommand", l)
          ELSE IF locals.shell_as_root THEN Step("shell_exec", l)
          ELSE Step("prep_validate", l)
    /\ UNCHANGED trace /\ WorldUnchanged /\ Frame

\* a bug: "/" and the root home are not refused
validate_shell_home_unrefused(shell_home_dir) ==
    IF Len(Strip(shell_home_dir)) = 0 THEN Fail("InvalidShellHome:empty")
    ELSE IF ~StartsWithSlash(shell_home_dir) THEN Fail("InvalidShellHome:relative")
    ELSE Ok(shell_home_dir)

\* the checks that open resolve_non_root_shell_home
validate_shell_home(shell_home_dir) ==
    IF Len(Strip(shell_home_dir)) = 0 THEN Fail("InvalidShellHome:empty")
    ELSE IF ~StartsWithSlash(shell_home_dir) THEN Fail("InvalidShellHome:relative")
    ELSE IF shell_home_dir \in { <<"/">>, <<"/", "root">> }
         THEN Fail("InvalidShellHome:refused")
    ELSE Ok(shell_home_dir)

\* a bug: docker goes to the probe without preparing the home as root
prep_validate_unprepared ==
    /\ pc = "prep_validate"
    /\ LET r == validate_shell_home(locals.shell_home_dir)
       IN IF ~r.ok THEN Exit(1, r.error)
          ELSE Goto("prep_probe")
    /\ UNCHANGED trace /\ WorldUnchanged /\ Frame

prep_validate ==
    /\ pc = "prep_validate"
    /\ LET r == validate_shell_home(locals.shell_home_dir)
       IN IF ~r.ok THEN Exit(1, r.error)
          ELSE IF args.runtime = "docker" THEN Goto("prep_ensure_home")
          ELSE Goto("prep_probe")
    /\ UNCHANGED trace /\ WorldUnchanged /\ Frame

prep_ensure_home ==
    /\ pc = "prep_ensure_home"
    /\ \E ok \in BOOLEAN :
        /\ Emit([Exec("ensure_home", "0:0") EXCEPT !.ok = ok])
        /\ IF ok THEN Goto("prep_probe") ELSE Exit(1, "ShellHomeNotWritable:prepare")
    /\ WorldUnchanged /\ Frame

get_non_root_shell_identity_args(runtime) ==
    IF runtime = "docker" THEN HostUserArg ELSE ""

is_zsh_command(command_args) ==
    IF Len(command_args) = 0 THEN FALSE
    ELSE Basename(command_args[1]) = <<"zsh">>

get_shell_history_env(shell_command_args) ==
    IF Len(shell_command_args) = 0 THEN <<>>
    ELSE LET shell_name == Basename(shell_command_args[1])
         IN IF shell_name = <<"zsh">>
            THEN << <<"HISTFILE", posixpath_join(CONTAINER_SHELL_HISTORY_DIR, <<".zsh_history">>)>> >>
            ELSE IF shell_name = <<"bash">>
            THEN << <<"HISTFILE", posixpath_join(CONTAINER_SHELL_HISTORY_DIR, <<".bash_history">>)>> >>
            ELSE <<>>

\* a bug: the docker identity step is left out
AfterZsh_no_identity == "shell_exec"

\* where prepare_non_root_shell goes after the zsh part
AfterZsh == IF args.runtime = "docker" THEN "prep_identity" ELSE "shell_exec"

\* a bug: a failed writability probe is ignored
prep_probe_unchecked ==
    /\ pc = "prep_probe"
    /\ \E ok \in BOOLEAN :
        /\ Emit([Exec("probe_writable", get_non_root_shell_identity_args(args.runtime))
                    EXCEPT !.env = << <<"HOME", locals.shell_home_dir>> >>, !.ok = ok])
        /\ LET l == [locals EXCEPT
                        !.shell_env = get_shell_history_env(locals.shell_command_args)]
           IN IF is_zsh_command(locals.shell_command_args)
              THEN Step("prep_has_zsh", l)
              ELSE Step(AfterZsh, l)
    /\ WorldUnchanged /\ Frame

\* run_non_root_shell_probe with the writability script, then the history env
prep_probe ==
    /\ pc = "prep_probe"
    /\ \E ok \in BOOLEAN :
        /\ Emit([Exec("probe_writable", get_non_root_shell_identity_args(args.runtime))
                    EXCEPT !.env = << <<"HOME", locals.shell_home_dir>> >>, !.ok = ok])
        /\ IF ~ok THEN Exit(1, "ShellHomeNotWritable")
           ELSE LET l == [locals EXCEPT
                            !.shell_env = get_shell_history_env(locals.shell_command_args)]
                IN IF is_zsh_command(locals.shell_command_args)
                   THEN Step("prep_has_zsh", l)
                   ELSE Step(AfterZsh, l)
    /\ WorldUnchanged /\ Frame

\* container_has_command(container_name, "zsh")
prep_has_zsh ==
    /\ pc = "prep_has_zsh"
    /\ \E ok \in BOOLEAN :
        /\ Emit([Exec("has_zsh", "") EXCEPT !.ok = ok])
        /\ IF ok THEN Goto("prep_zsh_env") ELSE Exit(1, "ZshNotInstalled")
    /\ WorldUnchanged /\ Frame

\* a variant: a blank MIM_ZDOTDIR counts as a value
get_non_root_zsh_env_untrimmed(container_env) ==
    LET image_zdotdir == container_env.MIM_ZDOTDIR
    IN IF Len(image_zdotdir) = 0 THEN <<>>
       ELSE << <<"ZDOTDIR", image_zdotdir>> >>

get_non_root_zsh_env(container_env) ==
    LET image_zdotdir == Strip(container_env.MIM_ZDOTDIR)
    IN IF Len(image_zdotdir) = 0 THEN <<>>
       ELSE << <<"ZDOTDIR", image_zdotdir>> >>

prep_zsh_env ==
    /\ pc = "prep_zsh_env"
    /\ Emit([Call("inspect") EXCEPT !.kind = "env"])
    /\ \E z \in ZdotdirValues :
        LET container_env == [locals.container_env EXCEPT !.MIM_ZDOTDIR = z]
        IN Step(AfterZsh,
                [locals EXCEPT !.container_env = container_env,
                               !.shell_env = @ \o get_non_root_zsh_env(container_env)])
    /\ WorldUnchanged /\ Frame

\* a bug: a failed identity exec ends the shell request
prep_identity_fatal ==
    /\ pc = "prep_identity"
    /\ \E ok \in BOOLEAN, resolved_username \in ResolvedUsernames :
        /\ ~ok => resolved_username = NoneStr
        /\ Emit([Exec("identity", "0:0") EXCEPT !.ok = ok])
        /\ IF ~ok THEN Exit(1, "CommandFailed")
           ELSE Step("shell_exec",
                     [locals EXCEPT
                         !.resolved_username = resolved_username,
                         !.shell_env =
                             @ \o << <<"USER", <<resolved_username>>>>,
                                     <<"LOGNAME", <<resolved_username>>>> >>])
    /\ WorldUnchanged /\ Frame

\* ensure_docker_non_root_identity, and the end of prepare_non_root_shell
prep_identity ==
    /\ pc = "prep_identity"
    /\ \E ok \in BOOLEAN, resolved_username \in ResolvedUsernames :
        /\ ~ok => resolved_username = NoneStr
        /\ Emit([Exec("identity", "0:0") EXCEPT !.ok = ok])
        /\ Step("shell_exec",
                [locals EXCEPT
                    !.resolved_username = resolved_username,
                    !.shell_env =
                        IF resolved_username # NoneStr
                        THEN @ \o << <<"USER", <<resolved_username>>>>,
                                     <<"LOGNAME", <<resolved_username>>>> >>
                        ELSE @])
    /\ WorldUnchanged /\ Frame

\* a bug: a root shell gets the HOME entry and the user's environment too
shell_exec_root_env ==
    /\ pc = "shell_exec"
    /\ \E ok \in BOOLEAN :
        /\ Emit([Exec("interactive",
                      IF locals.shell_as_root THEN "0:0"
                      ELSE get_non_root_shell_identity_args(args.runtime))
                    EXCEPT
                    !.env = << <<"HOME", locals.shell_home_dir>> >> \o locals.shell_env,
                    !.workdir = IF locals.container_cwd # NoPath THEN locals.container_cwd
                                ELSE locals.shell_home_dir,
                    !.argv = locals.shell_command_args,
                    !.ok = ok])
        /\ IF ok THEN Exit(0, "") ELSE Exit(1, "CommandFailed")
    /\ WorldUnchanged /\ Frame

\* a bug: the mapped working directory is dropped
shell_exec_home_workdir ==
    /\ pc = "shell_exec"
    /\ \E ok \in BOOLEAN :
        /\ Emit([Exec("interactive",
                      IF locals.shell_as_root THEN "0:0"
                      ELSE get_non_root_shell_identity_args(args.runtime))
                    EXCEPT
                    !.env = IF locals.shell_as_root THEN <<>>
                            ELSE << <<"HOME", locals.shell_home_dir>> >> \o locals.shell_env,
                    !.workdir = locals.shell_home_dir,
                    !.argv = locals.shell_command_args,
                    !.ok = ok])
        /\ IF ok THEN Exit(0, "") ELSE Exit(1, "CommandFailed")
    /\ WorldUnchanged /\ Frame

\* a variant: the exec waits while another invocation is at work
shell_exec_under_lock ==
    /\ pc = "shell_exec"
    /\ peer.pc \in {"idle", "done"}
    /\ \E ok \in BOOLEAN :
        /\ Emit([Exec("interactive",
                      IF locals.shell_as_root THEN "0:0"
                      ELSE get_non_root_shell_identity_args(args.runtime))
                    EXCEPT
                    !.env = IF locals.shell_as_root THEN <<>>
                            ELSE << <<"HOME", locals.shell_home_dir>> >> \o locals.shell_env,
                    !.workdir = IF locals.container_cwd # NoPath THEN locals.container_cwd
                                ELSE locals.shell_home_dir,
                    !.argv = locals.shell_command_args,
                    !.ok = ok])
        /\ IF ok THEN Exit(0, "") ELSE Exit(1, "CommandFailed")
    /\ WorldUnchanged /\ Frame

\* the interactive exec
shell_exec ==
    /\ pc = "shell_exec"
    /\ \E ok \in BOOLEAN :
        /\ Emit([Exec("interactive",
                      IF locals.shell_as_root THEN "0:0"
                      ELSE get_non_root_shell_identity_args(args.runtime))
                    EXCEPT
                    !.env = IF locals.shell_as_root THEN <<>>
                            ELSE << <<"HOME", locals.shell_home_dir>> >> \o locals.shell_env,
                    !.workdir = IF locals.container_cwd # NoPath THEN locals.container_cwd
                                ELSE locals.shell_home_dir,
                    !.argv = locals.shell_command_args,
                    !.ok = ok])
        /\ IF ok THEN Exit(0, "") ELSE Exit(1, "CommandFailed")
    /\ WorldUnchanged /\ Frame

(***************************************************************************)
(* The command-line tool                                                   *)
(***************************************************************************)
Init ==
    /\ containers \in [ContainerNames -> {Absent} \cup ForeignContainers]
    /\ containers["ghost"] = Absent
    /\ dataDirs = {}
    /\ cmd = "none"
    /\ args = NoArgs
    /\ pc = "idle"
    /\ locals = NoLocals
    /\ trace = <<>>
    /\ exitCode = -1
    /\ pre = [containers |-> containers, dataDirs |-> dataDirs]
    /\ fnIn = <<>>
    /\ fnOut = <<>>
    /\ etc = <<>>
    /\ idLog = <<>>
    /\ peer = NoPeer

Next ==
    \/ InvokeBuild
    \/ build_build
    \/ InvokeCreate
    \/ InvokeDestroy
    \/ InvokeShell
    \/ InvokeStart
    \/ InvokeStop
    \/ require_exists
    \/ require_mim
    \/ create_exists
    \/ create_image
    \/ create_keepalive
    \/ create_mounts
    \/ create_devices
    \/ create_shares
    \/ create_makedirs
    \/ create_create
    \/ destroy_running
    \/ destroy_stop
    \/ destroy_rmtree
    \/ destroy_rm
    \/ start_running
    \/ start_start
    \/ stop_running
    \/ stop_stop
    \/ shell_running
    \/ shell_start
    \/ shell_running2
    \/ shell_mounts
    \/ shell_user
    \/ shell_home
    \/ shell_home_probe
    \/ shell_split
    \/ prep_validate
    \/ prep_ensure_home
    \/ prep_probe
    \/ prep_has_zsh
    \/ prep_zsh_env
    \/ prep_identity
    \/ shell_exec
    \/ Terminate

Spec == Init /\ [][Next]_vars

(***************************************************************************)
(* Properties of the command handlers                                      *)
(***************************************************************************)
Target == args.container_name

\* the container named on the command line was mim-owned when the command began
PreMim ==
    /\ pre.containers[Target].exists
    /\ <<"mim", "1">> \in pre.containers[Target].labels

PreRunning == pre.containers[Target].exists /\ pre.containers[Target].running

WorldAsBefore == containers = pre.containers /\ dataDirs = pre.dataDirs

ExecKinds(t) == {t[i].kind : i \in {j \in 1..Len(t) : t[j].op = "exec"}}

C2_StartThenRecheck ==
    (cmd = "shell" /\ PreMim /\ ~PreRunning)
        => /\ \A i \in 1..Len(trace) :
                /\ i \in 1..3 => trace[i].op = "ps"
                /\ i = 4 => trace[i].op = "start"
                /\ i = 5 => trace[i].op = "ps"
           /\ (Len(trace) >= 5 /\ ~containers[Target].running)
                => /\ pc = "done" /\ exitCode = 1
                   /\ "exec" \notin Ops(trace)
           /\ (pc = "done" /\ ~containers[Target].running)
                => exitCode = 1 /\ "exec" \notin Ops(trace)

C2_Witness ==
    /\ cmd = "shell" /\ PreMim /\ ~PreRunning
    /\ pc = "done" /\ exitCode = 1
    /\ Len(trace) = 5 /\ trace[4].op = "start" /\ trace[4].ok
    /\ locals.error = "CouldNotBeStarted"

\* C3: destroy without --force on a running mim container ends with exit code
\* 1 having issued ps calls only: no stop, no rm, the containers and the data
\* directories are as they were.
C3_DestroyRunningNoForce ==
    (cmd = "destroy" /\ PreMim /\ PreRunning /\ ~args.force)
        => /\ pc \in {"require_exists", "require_mim", "destroy_running", "done"}
           /\ pc = "done" => exitCode = 1
           /\ Ops(trace) \subseteq {"ps"}
           /\ WorldAsBefore

C3_Witness ==
    /\ cmd = "destroy" /\ PreMim /\ PreRunning /\ ~args.force
    /\ pc = "done" /\ exitCode = 1
    /\ Target \in dataDirs
    /\ locals.error = "ContainerRunning"

ValidationErrors ==
    { "EmptyKeepaliveCommand", "InvalidMountSpec:format", "InvalidMountSpec:host",
      "InvalidMountSpec:empty", "InvalidMountSpec:relative",
      "InvalidDeviceSpec:empty", "InvalidDeviceSpec:host" }

\* C4: in create, the data directory is made and the runtime's create is
\* called only after the keepalive command, the custom mounts and the device
\* specs have all been validated: a create that rejects one of them has exit
\* code 1, has issued neither makedirs nor create, and has left the containers
\* and the data directories as they were.
C4_ValidateThenAct ==
    cmd = "create"
        => /\ locals.error \in ValidationErrors
                => /\ pc = "done" /\ exitCode = 1
                   /\ Ops(trace) \subseteq {"ps", "image_exists", "image_inspect"}
                   /\ WorldAsBefore
           /\ pc \in {"create_keepalive", "create_mounts", "create_devices",
                      "create_shares", "create_makedirs"}
                => /\ Ops(trace) \subseteq {"ps", "image_exists", "image_inspect"}
                   /\ WorldAsBefore

C4_Witness ==
    /\ cmd = "create" /\ pc = "done" /\ exitCode = 1
    /\ locals.error = "InvalidDeviceSpec:host"
    /\ Len(locals.custom_mount_specs) = 2
    /\ locals.keepalive_args # <<>>
    /\ locals.container_name \notin dataDirs

NoDuplicates(seq) == \A i, j \in 1..Len(seq) : seq[i] = seq[j] => i = j

\* C5: the bind mounts one create passes to the runtime, the home-share pairs
\* followed by the custom mounts, never hold the same (source, target) pair
\* twice.
C5_NoDuplicateBinds ==
    \A i \in 1..Len(trace) :
        trace[i].op = "create"
            => NoDuplicates(locals.home_share_mount_pairs \o locals.custom_mount_specs)

\* a custom mount spec as C8 describes the accepted ones
HostPart(spec) == SubSeq(spec, 1, FirstIndex(spec, ":") - 1)
TargetPart(spec) == Strip(SubSeq(spec, FirstIndex(spec, ":") + 1, Len(spec)))

AcceptableMountSpec(spec) ==
    /\ Contains(spec, ":")
    /\ TargetPart(spec) # <<>>
    /\ Head(TargetPart(spec)) = "/"
    /\ realpath(abspath(expanduser(HostPart(spec)))) \in HostPaths

MountSpecErrors ==
    { "InvalidMountSpec:format", "InvalidMountSpec:host", "InvalidMountSpec:empty",
      "InvalidMountSpec:relative" }

IsSuffix(suffix, seq) ==
    /\ Len(suffix) <= Len(seq)
    /\ SubSeq(seq, Len(seq) - Len(suffix) + 1, Len(seq)) = suffix

\* C8: the custom mount specs are accepted only when every one of them has a
\* ':' separator, a target that after trimming is non-empty and starts with
\* '/', and an existing host source; they are then emitted in input order as
\* (canonical host path, trimmed target) and reach the runtime's create in
\* that order.  A list holding any other spec ends create with exit code 1
\* before the data directory or the container is created.
C8_CustomMounts ==
    cmd = "create"
        => /\ pc = "create_devices"
                => /\ \A i \in 1..Len(locals.raw) : AcceptableMountSpec(locals.raw[i])
                   /\ Len(locals.custom_mount_specs) = Len(locals.raw)
                   /\ \A i \in 1..Len(locals.raw) :
                        locals.custom_mount_specs[i] =
                            <<normalize_host_path(HostPart(locals.raw[i])),
                              TargetPart(locals.raw[i])>>
           /\ (pc = "done" /\ locals.error \in MountSpecErrors)
                => /\ \E i \in 1..Len(locals.raw) : ~AcceptableMountSpec(locals.raw[i])
                   /\ exitCode = 1
                   /\ Ops(trace) \subseteq {"ps", "image_exists", "image_inspect"}
                   /\ WorldAsBefore
           /\ \A i \in 1..Len(trace) :
                trace[i].op = "create" => IsSuffix(locals.custom_mount_specs, trace[i].binds)

C8_Witness ==
    /\ cmd = "create" /\ pc = "create_devices"
    /\ Len(locals.raw) = 2
    /\ locals.custom_mount_specs =
         << <<<<"/", "data">>, <<"/", "d">>>>,
            <<<<"/", "home", "/", "u", "/", "proj">>, <<"/", "w">>>> >>

ForbiddenShellHome(h) ==
    \/ Strip(h) = <<>>
    \/ Head(h) # "/"
    \/ h = <<"/">>
    \/ h = <<"/", "root">>

\* C9: a non-root shell request whose home directory is empty, not absolute,
\* '/' or '/root' is refused on podman and on docker: the command ends with
\* exit code 1, and neither resolve_non_root_shell_home nor anything after it
\* has issued an exec (no home preparation, writability probe, zsh probe,
\* identity reconciliation or interactive exec).
C9_ForbiddenHomeRefused ==
    (cmd = "shell" /\ ~locals.shell_as_root /\ locals.shell_home_dir # NoPath
     /\ ForbiddenShellHome(locals.shell_home_dir))
        => /\ pc \in {"shell_split", "prep_validate", "done"}
           /\ pc = "done" => exitCode = 1
           /\ ExecKinds(trace) \subseteq {"probe_home"}

C9_Witness ==
    /\ cmd = "shell" /\ args.runtime = "docker" /\ ~locals.shell_as_root
    /\ locals.shell_home_dir = <<"/", "root">>
    /\ pc = "done" /\ exitCode = 1
    /\ locals.error = "InvalidShellHome:refused"
    /\ locals.shell_command_args # <<>>

(***************************************************************************)
(* _get_home_share_mount_pairs on its own                                  *)
(***************************************************************************)
Pending == [done |-> FALSE, value |-> <<>>]

InitMounts ==
    /\ fnIn \in [home_shares : BSeq(ShareInputs, MaxShares), image_home_dir : ImageHomes]
    /\ fnOut = Pending
    /\ containers = [n \in ContainerNames |-> Absent]
    /\ dataDirs = {}
    /\ cmd = "none"
    /\ args = NoArgs
    /\ pc = "idle"
    /\ locals = NoLocals
    /\ trace = <<>>
    /\ exitCode = -1
    /\ pre = [containers |-> containers, dataDirs |-> dataDirs]
    /\ etc = <<>>
    /\ idLog = <<>>
    /\ peer = NoPeer

apply_get_home_share_mount_pairs ==
    /\ ~fnOut.done
    /\ fnOut' = [done |-> TRUE,
                 value |-> get_home_share_mount_pairs(fnIn.home_shares,
                                                      fnIn.image_home_dir)]
    /\ UNCHANGED <<containers, dataDirs, cmd, args, pc, locals, trace, exitCode, pre,
                   fnIn, etc, idLog, peer>>

NextMounts == apply_get_home_share_mount_pairs

SpecMounts == InitMounts /\ [][NextMounts]_vars

\* the canonical form of a host path, by components
Canon(s) == realpath(abspath(expanduser(s)))

\* the canonical real user home directory
UserHome == Canon(HomeEnv)

\* component-wise containment in the user home
UnderHome(cs) ==
    /\ Len(cs) >= Len(UserHome)
    /\ SubSeq(cs, 1, Len(UserHome)) = UserHome

AcceptedShare(s) == Canon(s) \in HostPaths /\ UnderHome(Canon(s))

\* C6: a home share whose canonical path is not under the canonical user home
\* is the source of no mount pair of the result, and every share that exists
\* under the home still has its identity pair in the result, wherever the
\* skipped shares stand in the list.
C6_OutsideHomeSkipped ==
    fnOut.done
        => \A i \in 1..Len(fnIn.home_shares) :
              LET c == Canon(fnIn.home_shares[i])
              IN /\ ~UnderHome(c)
                    => \A k \in 1..Len(fnOut.value) : Comps(fnOut.value[k][1]) # c
                 /\ AcceptedShare(fnIn.home_shares[i])
                    => \E k \in 1..Len(fnOut.value) :
                          fnOut.value[k] = <<PathStr(c), PathStr(c)>>

C6_Witness ==
    /\ fnOut.done
    /\ fnIn.home_shares = << <<"~", "/", "out">>, <<"~", "/", "proj">> >>
    /\ Len(fnOut.value) = 2

PairsFrom(pairs, c) == SelectSeq(pairs, LAMBDA p : Comps(p[1]) = c)

\* the image home joined with the part of c below the user home
TildeTarget(c) ==
    PathStr(Comps(fnIn.image_home_dir) \o SubSeq(c, Len(UserHome) + 1, Len(c)))

\* C7: the pairs of the result that come from one accepted share are exactly
\* the identity pair followed by the tilde pair, whose target is the image
\* home joined with the share's path relative to the user home; when that
\* target equals the source they are the identity pair alone.  No other pair
\* is in the result.
C7_IdentityAndTildePair ==
    fnOut.done
        => /\ \A i \in 1..Len(fnIn.home_shares) :
                LET c == Canon(fnIn.home_shares[i])
                    src == PathStr(c)
                IN AcceptedShare(fnIn.home_shares[i])
                    => PairsFrom(fnOut.value, c) =
                          IF TildeTarget(c) = src THEN << <<src, src>> >>
                          ELSE << <<src, src>>, <<src, TildeTarget(c)>> >>
           /\ \A k \in 1..Len(fnOut.value) :
                \E i \in 1..Len(fnIn.home_shares) :
                    /\ AcceptedShare(fnIn.home_shares[i])
                    /\ Comps(fnOut.value[k][1]) = Canon(fnIn.home_shares[i])

C7_Witness ==
    /\ fnOut.done
    /\ fnIn.home_shares = << <<"~", "/", "proj">>, <<"~">> >>
    /\ fnIn.image_home_dir = <<"/", "root">>
    /\ fnOut.value =
         << <<<<"/", "home", "/", "u", "/", "proj">>, <<"/", "home", "/", "u", "/", "proj">>>>,
            <<<<"/", "home", "/", "u", "/", "proj">>, <<"/", "root", "/", "proj">>>>,
            <<<<"/", "home", "/", "u">>, <<"/", "home", "/", "u">>>>,
            <<<<"/", "home", "/", "u">>, <<"/", "root">>>> >>

(***************************************************************************)
(* Docker identity reconciliation                                          *)
(***************************************************************************)
\* get_host_identity on the host at hand, and the fallback names built from it
HostIdentities ==
    { [uid |-> 1000, gid |-> 1000, username |-> "u", groupname |-> "u",
       fallback_username |-> "mimuser1000", fallback_groupname |-> "mimgroup1000"],
      [uid |-> 1000, gid |-> 1001, username |-> "mimuser1000", groupname |-> "u",
       fallback_username |-> "mimuser1000", fallback_groupname |-> "mimgroup1001"] }

\* the entries of /etc/group (name:x:gid:) and of /etc/passwd
\* (name:x:uid:gid::home:shell); rest holds what a later write added to the
\* line after its last field
GroupLines ==
    { [name |-> "u", gid |-> 1000, rest |-> <<>>],
      [name |-> "u", gid |-> 1001, rest |-> <<>>],
      [name |-> "mimgroup1000", gid |-> 1001, rest |-> <<>>] }

PasswdLines ==
    { [name |-> "u", uid |-> 1000, gid |-> 1000, home |-> <<"/", "home", "/", "u">>,
       shell |-> "/bin/sh", rest |-> <<>>],
      [name |-> "u", uid |-> 1001, gid |-> 1001, home |-> <<"/", "home", "/", "u">>,
       shell |-> "/bin/sh", rest |-> <<>>],
      [name |-> "mimuser1000", uid |-> 1001, gid |-> 1001,
       home |-> <<"/", "home", "/", "u">>, shell |-> "/bin/sh", rest |-> <<>>] }

\* a file: its lines, and whether its last line ends with a newline
Files(Lines) ==
    { f \in [lines : BSeq(Lines, MaxLines), nl : BOOLEAN] : f.lines = <<>> => f.nl }

\* the best shell `command -v` finds in the container
ShellPaths == {"/usr/bin/zsh", "/bin/bash", "/bin/sh"}

\* awk -F: -v id=... '$3 == id { print $1; exit }': the name of the first line
\* whose third field is the id, or nothing
RECURSIVE NameForId(_, _, _)
NameForId(lines, field, id) ==
    IF lines = <<>> THEN ""
    ELSE IF Head(lines)[field] = id THEN Head(lines).name
    ELSE NameForId(Tail(lines), field, id)

\* awk -F: -v name=... '$1 == name { found=1 } END { exit(found ? 0 : 1) }'
NameTaken(lines, name) == \E i \in 1..Len(lines) : lines[i].name = name

\* printf '...\n' >> file: the text lands after the last byte of the file, so
\* it starts a line of its own only when the file is empty or ends with a
\* newline
AppendEntry(file, entry) ==
    IF file.lines = <<>> \/ file.nl
    THEN [lines |-> Append(file.lines, entry), nl |-> TRUE]
    ELSE [lines |-> [file.lines EXCEPT ![Len(file.lines)].rest = Append(@, entry)],
          nl |-> TRUE]

\* one run of the script of _build_docker_identity_script on the container's
\* files: the files after the run and the line it prints
docker_identity_script(identity, shell_home_dir, files) ==
    LET group_for_gid == NameForId(files.group.lines, "gid", identity.gid)
        group == IF NameTaken(files.group.lines, identity.groupname)
                 THEN identity.fallback_groupname ELSE identity.groupname
        newGroup ==
            IF group_for_gid = ""
            THEN AppendEntry(files.group,
                             [name |-> group, gid |-> identity.gid, rest |-> <<>>])
            ELSE files.group
        user_for_uid == NameForId(files.passwd.lines, "uid", identity.uid)
        user == IF NameTaken(files.passwd.lines, identity.username)
                THEN identity.fallback_username ELSE identity.username
        newPasswd ==
            IF user_for_uid = ""
            THEN AppendEntry(files.passwd,
                             [name |-> user, uid |-> identity.uid, gid |-> identity.gid,
                              home |-> shell_home_dir, shell |-> files.shell_path,
                              rest |-> <<>>])
            ELSE files.passwd
    IN [group |-> newGroup, passwd |-> newPasswd, shell_path |-> files.shell_path,
        output |-> NameForId(newPasswd.lines, "uid", identity.uid)]

\* ensure_docker_non_root_identity: the last non-empty line of the output
resolved_username_of(output) == IF output = "" THEN NoneStr ELSE output

InitIdentity ==
    /\ etc \in [group : Files(GroupLines), passwd : Files(PasswdLines),
                shell_path : ShellPaths]
    /\ fnIn \in [identity : HostIdentities, shell_home_dir : {<<"/", "home", "/", "u">>},
                 files : {etc}]
    /\ idLog = <<>>
    /\ peer = NoPeer
    /\ fnOut = Pending
    /\ containers = [n \in ContainerNames |-> Absent]
    /\ dataDirs = {}
    /\ cmd = "none"
    /\ args = NoArgs
    /\ pc = "idle"
    /\ locals = NoLocals
    /\ trace = <<>>
    /\ exitCode = -1
    /\ pre = [containers |-> containers, dataDirs |-> dataDirs]

\* the identity exec of one shell invocation, script exit code 0
run_docker_identity_script ==
    /\ Len(idLog) < MaxRuns
    /\ LET r == docker_identity_script(fnIn.identity, fnIn.shell_home_dir, etc)
       IN /\ etc' = [group |-> r.group, passwd |-> r.passwd, shell_path |-> r.shell_path]
          /\ idLog' = Append(idLog, [group |-> r.group, passwd |-> r.passwd,
                                     username |-> resolved_username_of(r.output)])
    /\ UNCHANGED <<containers, dataDirs, cmd, args, pc, locals, trace, exitCode, pre,
                   fnIn, fnOut, peer>>

NextIdentity == run_docker_identity_script

SpecIdentity == InitIdentity /\ [][NextIdentity]_vars

\* C10: a run of the identity script that follows another run for the same
\* host identity leaves /etc/group and /etc/passwd exactly as that run left
\* them and resolves the same username.
C10_IdentityIdempotent ==
    \A k \in 2..Len(idLog) :
        /\ idLog[k].group = idLog[k - 1].group
        /\ idLog[k].passwd = idLog[k - 1].passwd
        /\ idLog[k].username = idLog[k - 1].username

(***************************************************************************)
(* The steps of a shell request                                            *)
(***************************************************************************)
\* the positions of the calls of a trace that are execs of one kind
ExecsAt(t, kind) == {i \in 1..Len(t) : t[i].op = "exec" /\ t[i].kind = kind}

NonRootShell == cmd = "shell" /\ pc # "idle" /\ ~locals.shell_as_root

\* the errors of home resolution, home validation and writability probing
ShellHomeErrors ==
    { "NoNonRootHome", "InvalidShellHome:empty", "InvalidShellHome:relative",
      "InvalidShellHome:refused", "ShellHomeNotWritable:prepare",
      "ShellHomeNotWritable" }

\* C11 as stated: on docker the identity reconciliation exec comes before the
\* non-root writability probe exec.
C11_IdentityBeforeProbe ==
    (NonRootShell /\ args.runtime = "docker")
        => \A i \in ExecsAt(trace, "probe_writable") :
              \E j \in ExecsAt(trace, "identity") : j < i

\* C11 (amended): a non-root shell request resolves its home, then probes
\* writability, then (docker only) reconciles the identity, then is ready: the
\* identity exec is issued on docker only and only after a successful
\* writability probe, the interactive exec is issued only after a successful
\* writability probe and, on docker, after the identity exec, and a failure
\* of home resolution or of the writability probe ends with exit code 1 and no
\* interactive exec.
C11_ShellStateOrder ==
    NonRootShell
        => /\ \A i \in ExecsAt(trace, "identity") :
                /\ args.runtime = "docker"
                /\ \E j \in ExecsAt(trace, "probe_writable") : j < i /\ trace[j].ok
           /\ \A i \in ExecsAt(trace, "probe_writable") :
                validate_shell_home(locals.shell_home_dir).ok
           /\ \A i \in ExecsAt(trace, "interactive") :
                /\ \E j \in ExecsAt(trace, "probe_writable") : j < i /\ trace[j].ok
                /\ args.runtime = "docker"
                      => \E j \in ExecsAt(trace, "identity") : j < i
           /\ (pc = "done" /\ locals.error \in ShellHomeErrors)
                => exitCode = 1 /\ ExecsAt(trace, "interactive") = {}

C11_Witness ==
    /\ NonRootShell /\ args.runtime = "docker" /\ pc = "done" /\ exitCode = 0
    /\ ExecsAt(trace, "ensure_home") # {}
    /\ ExecsAt(trace, "probe_writable") # {}
    /\ ExecsAt(trace, "identity") # {}
    /\ ExecsAt(trace, "interactive") # {}

\* the variables an exec sets with -e, and the values it gives to one of them
EnvKeys(env) == {env[i][1] : i \in 1..Len(env)}
EnvValues(env, key) == {env[i][2] : i \in {j \in 1..Len(env) : env[j][1] = key}}

\* C12: a docker identity exec that fails or prints no username does not end
\* the shell request: the interactive exec follows, with neither USER nor
\* LOGNAME in its environment, and the exit code is that of the interactive
\* exec alone; a resolved username is exported as both USER and LOGNAME.
C12_IdentityFailureNonFatal ==
    (NonRootShell /\ ExecsAt(trace, "identity") # {})
        => /\ pc \in {"shell_exec", "done"}
           /\ pc = "done" => ExecsAt(trace, "interactive") = {Len(trace)}
           /\ \A i \in ExecsAt(trace, "identity") :
                ~trace[i].ok => locals.resolved_username = NoneStr
           /\ \A k \in ExecsAt(trace, "interactive") :
                /\ exitCode = (IF trace[k].ok THEN 0 ELSE 1)
                /\ IF locals.resolved_username = NoneStr
                   THEN {"USER", "LOGNAME"} \cap EnvKeys(trace[k].env) = {}
                   ELSE /\ EnvValues(trace[k].env, "USER") = {<<locals.resolved_username>>}
                        /\ EnvValues(trace[k].env, "LOGNAME") = {<<locals.resolved_username>>}

C12_Witness ==
    /\ NonRootShell /\ pc = "done" /\ exitCode = 0
    /\ \E i \in ExecsAt(trace, "identity") : ~trace[i].ok
    /\ ExecsAt(trace, "interactive") # {}
    /\ "HISTFILE" \in EnvKeys(trace[Len(trace)].env)

(***************************************************************************)
(* Home resolution                                                         *)
(***************************************************************************)
EnvInspects(t) == {i \in 1..Len(t) : t[i].op = "inspect" /\ t[i].kind = "env"}

\* C13: the home of a non-root shell request is the first non-empty of the
\* trimmed HOST_HOME of the container's environment, its trimmed HOME, and the
\* trimmed output of the probe exec; the probe exec is issued only when both
\* environment values are empty after trimming, and once; a root request gets
\* '/root' with neither an environment query nor a probe.
C13_HomePriority ==
    (cmd = "shell" /\ pc \notin {"idle", "require_exists", "require_mim", "shell_running",
                                 "shell_start", "shell_running2", "shell_mounts",
                                 "shell_user"})
        => LET host_home == Strip(locals.container_env.HOST_HOME)
               home == Strip(locals.container_env.HOME)
               probes == ExecsAt(trace, "probe_home")
               resolved == locals.shell_home_dir # NoPath
           IN IF locals.shell_as_root
              THEN /\ resolved => locals.shell_home_dir = <<"/", "root">>
                   /\ probes = {} /\ EnvInspects(trace) = {}
              ELSE /\ probes # {} => host_home = <<>> /\ home = <<>>
                   /\ Cardinality(probes) <= 1
                   /\ resolved =>
                        /\ host_home # <<>> => locals.shell_home_dir = host_home
                        /\ (host_home = <<>> /\ home # <<>>)
                              => locals.shell_home_dir = home
                        /\ (host_home = <<>> /\ home = <<>>)
                              => \E p \in probes :
                                    /\ trace[p].ok
                                    /\ locals.shell_home_dir = Strip(trace[p].output)
                                    /\ locals.shell_home_dir # <<>>

C13_Witness ==
    /\ cmd = "shell" /\ ~locals.shell_as_root
    /\ locals.container_env.HOST_HOME = <<" ">>
    /\ locals.container_env.HOME = <<" ">>
    /\ \E p \in ExecsAt(trace, "probe_home") : trace[p].output = <<"/", "home", "/", "u">>
    /\ locals.shell_home_dir = <<"/", "home", "/", "u">>

\* C14: when HOST_HOME and HOME are empty and the probe exec fails or echoes
\* nothing, the non-root shell request ends at once with the NoNonRootHome
\* error and exit code 1: no home is substituted and no exec follows the
\* probe.
C14_NoHomeIsFatal ==
    (NonRootShell
     /\ \E p \in ExecsAt(trace, "probe_home") :
            ~trace[p].ok \/ Strip(trace[p].output) = <<>>)
        => /\ Strip(locals.container_env.HOST_HOME) = <<>>
           /\ Strip(locals.container_env.HOME) = <<>>
           /\ pc = "done" /\ exitCode = 1
           /\ locals.error = "NoNonRootHome"
           /\ locals.shell_home_dir = NoPath
           /\ ExecKinds(trace) = {"probe_home"}
           /\ trace[Len(trace)].kind = "probe_home"

C14_Witness ==
    /\ NonRootShell /\ pc = "done" /\ exitCode = 1
    /\ locals.error = "NoNonRootHome"
    /\ \E p \in ExecsAt(trace, "probe_home") : ~trace[p].ok
    /\ args.runtime = "docker"

\* C15: a shell request whose command is zsh, root or not, issues its
\* interactive exec only after a `command -v zsh` probe has succeeded, and a
\* failed probe ends it with ZshNotInstalled, exit code 1 and no interactive
\* exec.
C15_ZshProbedBeforeExec ==
    (cmd = "shell" /\ is_zsh_command(locals.shell_command_args))
        => /\ \A k \in ExecsAt(trace, "interactive") :
                \E j \in ExecsAt(trace, "has_zsh") : j < k /\ trace[j].ok
           /\ (\E j \in ExecsAt(trace, "has_zsh") : ~trace[j].ok)
                => /\ pc = "done" /\ exitCode = 1
                   /\ locals.error = "ZshNotInstalled"
                   /\ ExecsAt(trace, "interactive") = {}

\* C16: when the writability probe exec fails, or on docker the privileged
\* home-preparation exec fails, the shell request ends at once with a
\* ShellHomeNotWritable error and exit code 1: the failed exec is its last
\* call, and neither an identity reconciliation exec nor an interactive exec
\* is issued.
C16_UnwritableHomeIsFatal ==
    (NonRootShell
     /\ \E i \in ExecsAt(trace, "probe_writable") \cup ExecsAt(trace, "ensure_home") :
            ~trace[i].ok)
        => /\ pc = "done" /\ exitCode = 1
           /\ locals.error \in {"ShellHomeNotWritable", "ShellHomeNotWritable:prepare"}
           /\ ~trace[Len(trace)].ok
           /\ trace[Len(trace)].kind \in {"probe_writable", "ensure_home"}
           /\ ExecsAt(trace, "identity") = {}
           /\ ExecsAt(trace, "interactive") = {}
           /\ ExecsAt(trace, "ensure_home") # {} => args.runtime = "docker"

C16_Witness ==
    /\ NonRootShell /\ args.runtime = "docker" /\ pc = "done" /\ exitCode = 1
    /\ locals.error = "ShellHomeNotWritable"
    /\ \E i \in ExecsAt(trace, "ensure_home") : trace[i].ok
    /\ \E i \in ExecsAt(trace, "probe_writable") : ~trace[i].ok

(***************************************************************************)
(* The configured container runtime                                        *)
(***************************************************************************)
SUPPORTED_CONTAINER_RUNTIMES == { <<"podman">>, <<"docker">> }

\* runtime names as they can be written in config.toml or after --runtime
RuntimeValues ==
    { <<"podman">>, <<"docker">>, <<" ", "Docker", " ">>, <<"PODMAN">>,
      <<"nerdctl">>, <<>> }

\* config.toml: absent, not parsable, without container.runtime, or naming one
ConfigFiles ==
    { [state |-> "missing", runtime |-> <<>>],
      [state |-> "malformed", runtime |-> <<>>],
      [state |-> "no_runtime", runtime |-> <<>>] }
    \cup { [state |-> "runtime", runtime |-> v] : v \in RuntimeValues }

\* DEFAULT_CONFIG_TOML as written by create_default_config
DefaultConfigFile == [state |-> "runtime", runtime |-> <<"podman">>]

\* str.lower on the words of a runtime name
LowerWord(w) ==
    CASE w = "Docker" -> "docker"
      [] w = "PODMAN" -> "podman"
      [] OTHER -> w

normalize_runtime(runtime) ==
    LET stripped == Strip(runtime)
    IN [i \in 1..Len(stripped) |-> LowerWord(stripped[i])]

normalize_and_validate_runtime(runtime) ==
    LET normalized_runtime == normalize_runtime(runtime)
    IN IF normalized_runtime \notin SUPPORTED_CONTAINER_RUNTIMES
       THEN Fail("InvalidConfigValue")
       ELSE Ok(normalized_runtime)

\* load_config: the runtime the loaded configuration names
loaded_runtime(config_file) ==
    IF config_file.state = "runtime" THEN config_file.runtime ELSE <<"podman">>

\* get_container_runtime: the override, or the configured runtime, or podman
\* when the configured runtime is not a supported one
get_container_runtime(override, config_file) ==
    IF override.some THEN override.val
    ELSE LET r == normalize_and_validate_runtime(loaded_runtime(config_file))
         IN IF r.ok THEN r.value ELSE <<"podman">>

NoRuntimeState == [override |-> None, resolved |-> <<>>, error |-> ""]

\* one invocation: the --runtime option and the config file it finds
InitConfig ==
    /\ fnIn \in [runtime : {None} \cup {Some(v) : v \in RuntimeValues},
                 config_file : ConfigFiles]
    /\ etc = fnIn.config_file
    /\ fnOut = NoRuntimeState
    /\ pc = "app_callback"
    /\ exitCode = -1
    /\ idLog = <<>>
    /\ peer = NoPeer
    /\ containers = [n \in ContainerNames |-> Absent]
    /\ dataDirs = {}
    /\ cmd = "none"
    /\ args = NoArgs
    /\ locals = NoLocals
    /\ trace = <<>>
    /\ pre = [containers |-> containers, dataDirs |-> dataDirs]

ConfigFrame ==
    UNCHANGED <<containers, dataDirs, cmd, args, locals, trace, pre, fnIn, idLog, peer>>

\* app_callback: set_container_runtime_override(runtime)
app_callback ==
    /\ pc = "app_callback"
    /\ IF ~fnIn.runtime.some
       THEN pc' = "command" /\ UNCHANGED <<fnOut, exitCode>>
       ELSE LET r == normalize_and_validate_runtime(fnIn.runtime.val)
            IN IF r.ok
               THEN /\ fnOut' = [fnOut EXCEPT !.override = Some(r.value)]
                    /\ pc' = "command"
                    /\ UNCHANGED exitCode
               ELSE /\ fnOut' = [fnOut EXCEPT !.error = r.error]
                    /\ pc' = "done"
                    /\ exitCode' = 1
    /\ UNCHANGED etc /\ ConfigFrame

\* a call of get_container_runtime by the command; load_config writes the
\* default file when there is none
call_get_container_runtime ==
    /\ pc = "command"
    /\ Len(fnOut.resolved) < MaxRuns
    /\ fnOut' = [fnOut EXCEPT
                    !.resolved = Append(@, get_container_runtime(fnOut.override, etc))]
    /\ etc' = IF ~fnOut.override.some /\ etc.state = "missing"
              THEN DefaultConfigFile ELSE etc
    /\ UNCHANGED <<pc, exitCode>> /\ ConfigFrame

\* the command returns
command_returns ==
    /\ pc = "command"
    /\ fnOut.resolved # <<>>
    /\ pc' = "done"
    /\ exitCode' = 0
    /\ UNCHANGED <<fnOut, etc>> /\ ConfigFrame

NextConfig == app_callback \/ call_get_container_runtime \/ command_returns

SpecConfig == InitConfig /\ [][NextConfig]_vars

InvalidRuntime(v) == normalize_runtime(v) \notin SUPPORTED_CONTAINER_RUNTIMES

\* C17: the resolved runtime is always podman or docker, and podman when
\* neither the option nor the config names one; a runtime value that is not
\* one of the two, from --runtime or from the config file, ends the command
\* with InvalidConfigValue and a nonzero exit code, and no runtime is resolved
\* in its place.
C17_InvalidRuntimeRejected ==
    /\ \A i \in 1..Len(fnOut.resolved) :
          /\ fnOut.resolved[i] \in SUPPORTED_CONTAINER_RUNTIMES
          /\ (~fnIn.runtime.some /\ fnIn.config_file.state \in {"missing", "no_runtime"})
                => fnOut.resolved[i] = <<"podman">>
    /\ (fnIn.runtime.some /\ InvalidRuntime(fnIn.runtime.val) /\ pc # "app_callback")
          => /\ pc = "done" /\ exitCode = 1
             /\ fnOut.error = "InvalidConfigValue"
             /\ fnOut.resolved = <<>>
    /\ (~fnIn.runtime.some /\ fnIn.config_file.state = "runtime"
        /\ InvalidRuntime(fnIn.config_file.runtime))
          => /\ fnOut.resolved = <<>>
             /\ pc = "done" => exitCode # 0

(***************************************************************************)
(* Failure of a runtime call                                               *)
(***************************************************************************)
\* the calls C18 lists: build, create, start, stop, rm and the interactive exec
IsListedCall(c) ==
    \/ c.op \in {"build", "create", "start", "stop", "rm"}
    \/ c.op = "exec" /\ c.kind = "interactive"

\* C18: within one invocation each of build, create, start, stop, rm and the
\* interactive exec is issued at most once, and one that fails is the last
\* thing the command does: the command ends with exit code 1 and no runtime
\* call or filesystem mutation follows it.
C18_NoRetryFailFast ==
    /\ \A i, j \in 1..Len(trace) :
          (IsListedCall(trace[i]) /\ trace[i].op = trace[j].op
           /\ trace[i].kind = trace[j].kind) => i = j
    /\ \A i \in 1..Len(trace) :
          (IsListedCall(trace[i]) /\ ~trace[i].ok)
             => /\ i = Len(trace)
                /\ pc = "done" /\ exitCode = 1

C18_Witness ==
    /\ cmd = "destroy" /\ args.force /\ pc = "done" /\ exitCode = 1
    /\ trace[Len(trace)].op = "stop" /\ ~trace[Len(trace)].ok
    /\ Target \in dataDirs
    /\ containers[Target].exists /\ containers[Target].running

(***************************************************************************)
(* Data directories                                                        *)
(***************************************************************************)
DirsMatchContainers(cs, dirs) == \A n \in ContainerNames : n \in dirs <=> cs[n].exists

\* C19: a create or destroy command that starts with a data directory for
\* exactly the names that have a container ends that way too, whether or not
\* the runtime's create or rm call succeeds.
C19_DataDirIffContainer ==
    (cmd \in {"create", "destroy"} /\ pc = "done"
     /\ DirsMatchContainers(pre.containers, pre.dataDirs))
        => DirsMatchContainers(containers, dataDirs)

(***************************************************************************)
(* Two invocations at the same time                                        *)
(***************************************************************************)
\* the invocation that is running, as it is kept while the other one runs
Context ==
    [cmd |-> cmd, args |-> args, pc |-> pc, locals |-> locals, trace |-> trace,
     exitCode |-> exitCode, pre |-> pre]

\* the operating system runs the other process; a process that has ended is
\* not run again
Switch ==
    /\ pc # "idle"
    /\ peer.pc \notin {"idle", "done"}
    /\ cmd' = peer.cmd
    /\ args' = peer.args
    /\ pc' = peer.pc
    /\ locals' = peer.locals
    /\ trace' = peer.trace
    /\ exitCode' = peer.exitCode
    /\ pre' = peer.pre
    /\ peer' = Context
    /\ WorldUnchanged
    /\ UNCHANGED <<fnIn, fnOut, etc, idLog>>

\* mim shell -c box and mim destroy -c box --force started together on a mim
\* container with its data directory
InitRace ==
    /\ \E running \in BOOLEAN :
          containers = [n \in ContainerNames |->
                          IF n = "box"
                          THEN [exists |-> TRUE, labels |-> MimLabels, running |-> running]
                          ELSE Absent]
    /\ dataDirs = {"box"}
    /\ cmd = "shell"
    /\ \E r \in Runtimes, ar \in BOOLEAN, sh \in ShellInputs :
          args = [NoArgs EXCEPT !.container_name = "box", !.runtime = r,
                                !.as_root = ar, !.shell = sh]
    /\ pc = "require_exists"
    /\ locals = [NoLocals EXCEPT !.container_name = "box"]
    /\ trace = <<>>
    /\ exitCode = -1
    /\ pre = [containers |-> containers, dataDirs |-> dataDirs]
    /\ peer = [cmd |-> "destroy",
               args |-> [NoArgs EXCEPT !.container_name = "box", !.runtime = args.runtime,
                                       !.force = TRUE],
               pc |-> "require_exists",
               locals |-> [NoLocals EXCEPT !.container_name = "box"],
               trace |-> <<>>, exitCode |-> -1, pre |-> pre]
    /\ fnIn = <<>>
    /\ fnOut = <<>>
    /\ etc = <<>>
    /\ idLog = <<>>

NextRace ==
    \/ Switch
    \/ require_exists
    \/ require_mim
    \/ destroy_running
    \/ destroy_stop
    \/ destroy_rmtree
    \/ destroy_rm
    \/ shell_running
    \/ shell_start
    \/ shell_running2
    \/ shell_mounts
    \/ shell_user
    \/ shell_home
    \/ shell_home_probe
    \/ shell_split
    \/ prep_validate
    \/ prep_ensure_home
    \/ prep_probe
    \/ prep_has_zsh
    \/ prep_zsh_env
    \/ prep_identity
    \/ shell_exec

SpecRace == InitRace /\ [][NextRace]_vars

\* C20: nothing coordinates the two invocations: a shell that has passed its
\* ownership and running checks and stands before its interactive exec can
\* always issue it, whatever the destroy invocation has done to the container
\* in the meantime, and it looks at the container's existence and running
\* state only in its first calls (two ownership checks, the running check, and
\* the check after a start), never again before the exec.
C20_ExecNeverWaits ==
    cmd = "shell"
        => /\ pc = "shell_exec"
                => /\ ENABLED shell_exec
                   /\ Len(trace) >= 4
                   /\ \A i \in 1..3 : trace[i].op = "ps"
           /\ \A i \in 1..Len(trace) : trace[i].op = "ps" => i <= 5

\* the shell issued its interactive exec as its last step, when the destroy
\* had already ended after removing the container
C20_Witness ==
    /\ cmd = "shell" /\ pc = "done"
    /\ trace[Len(trace)].op = "exec" /\ trace[Len(trace)].kind = "interactive"
    /\ peer.cmd = "destroy" /\ peer.pc = "done" /\ peer.exitCode = 0
    /\ \E i \in 1..Len(peer.trace) : peer.trace[i].op = "rm" /\ peer.trace[i].ok
    /\ ~containers["box"].exists
    /\ "box" \notin dataDirs

(***************************************************************************)
(* Container inventory (containers.py): the predicates over the records    *)
(* of `ps -a --format json`.  In the strings of a record "," and "=" are   *)
(* tokens of their own.                                                    *)
(***************************************************************************)
MaxRecords == 2

\* str.split(t)
RECURSIVE Split(_, _)
Split(s, t) ==
    IF Contains(s, t)
    THEN LET p == SplitOnce(s, t) IN <<p[1]>> \o Split(p[2], t)
    ELSE <<s>>

\* str.lstrip("/")
RECURSIVE LStripSlash(_)
LStripSlash(s) == IF s # <<>> /\ Head(s) = "/" THEN LStripSlash(Tail(s)) ELSE s

\* the JSON values of a record's fields: a mapping, a list, a string or null
JsonDict(d) == [kind |-> "dict", dict |-> d, list |-> <<>>, text |-> <<>>]
JsonList(l) == [kind |-> "list", dict |-> <<>>, list |-> l, text |-> <<>>]
JsonStr(s) == [kind |-> "str", dict |-> <<>>, list |-> <<>>, text |-> s]
JsonNull == [kind |-> "null", dict |-> <<>>, list |-> <<>>, text |-> <<>>]

\* a Python dict: a function from its keys; d[k] = v
EmptyDict == <<>>
DictSet(d, k, v) == [x \in (DOMAIN d) \cup {k} |-> IF x = k THEN v ELSE d[x]]

\* the loop of _parse_container_labels over labels.split(",")
RECURSIVE ParseLabelPairs(_, _)
ParseLabelPairs(parsed, pairs) ==
    IF pairs = <<>> THEN parsed
    ELSE LET pair == Head(pairs)
         IN IF Contains(pair, "=")
            THEN LET kv == SplitOnce(pair, "=")
                 IN ParseLabelPairs(DictSet(parsed, Strip(kv[1]), Strip(kv[2])),
                                    Tail(pairs))
            ELSE ParseLabelPairs(parsed, Tail(pairs))

parse_container_labels(labels) ==
    CASE labels.kind = "dict" -> labels.dict
      [] labels.kind = "str" ->
            IF Strip(labels.text) # <<>>
            THEN ParseLabelPairs(EmptyDict, Split(labels.text, ","))
            ELSE EmptyDict
      [] OTHER -> EmptyDict

parse_container_names_keep_slash(names) ==
    CASE names.kind = "list" ->
            SelectSeq(names.list, LAMBDA n : Strip(n) # <<>>)
      [] names.kind = "str" ->
            LET kept == SelectSeq(Split(names.text, ","), LAMBDA n : Strip(n) # <<>>)
            IN [i \in 1..Len(kept) |-> Strip(kept[i])]
      [] OTHER -> <<>>

parse_container_names(names) ==
    CASE names.kind = "list" ->
            LET kept == SelectSeq(names.list, LAMBDA n : Strip(n) # <<>>)
            IN [i \in 1..Len(kept) |-> LStripSlash(kept[i])]
      [] names.kind = "str" ->
            LET kept == SelectSeq(Split(names.text, ","), LAMBDA n : Strip(n) # <<>>)
            IN [i \in 1..Len(kept) |-> LStripSlash(Strip(kept[i]))]
      [] OTHER -> <<>>

InSeq(x, s) == \E i \in 1..Len(s) : s[i] = x

\* the first record of the ps output that carries the name
RECURSIVE get_container_by_name(_, _)
get_container_by_name(ps, container_name) ==
    IF ps = <<>> THEN None
    ELSE IF InSeq(container_name, parse_container_names(Head(ps).Names))
         THEN Some(Head(ps))
         ELSE get_container_by_name(Tail(ps), container_name)

container_exists_by_name(ps, container_name) ==
    get_container_by_name(ps, container_name).some

container_is_running_by_name(ps, container_name) ==
    LET container == get_container_by_name(ps, container_name)
    IN container.some /\ container.val.State = "running"

container_is_mim_by_name(ps, container_name) ==
    LET container == get_container_by_name(ps, container_name)
    IN /\ container.some
       /\ LET labels == parse_container_labels(container.val.Labels)
          IN <<"mim">> \in DOMAIN labels /\ labels[<<"mim">>] = <<"1">>

\* ---- what the runtime holds, and how it reports it ----
Label(k, v) == [key |-> k, value |-> v]

\* the label sets of a container: none at all, or key/value items in order
LabelSets ==
    { None,
      Some(<<Label(<<"mim">>, <<"1">>)>>),
      Some(<<Label(<<"mim">>, <<"0">>)>>),
      Some(<<Label(<<"note">>, <<"x", ",", "mim", "=", "1">>)>>),
      Some(<<Label(<<"note">>, <<"0">>), Label(<<"mim">>, <<"1">>)>>) }

NameLists == { << <<"box">> >>, << <<"web">> >>, << <<"web">>, <<"box">> >> }

RuntimeContainers == [names : NameLists, labels : LabelSets, state : {"running", "exited"}]

\* podman reports names as a list and labels as a mapping, docker both as
\* comma-joined strings; either may put "/" before a name
ReportForms == [runtime : {"podman", "docker"}, slash : BOOLEAN]

RECURSIVE JoinComma(_)
JoinComma(parts) ==
    IF parts = <<>> THEN <<>>
    ELSE IF Len(parts) = 1 THEN parts[1]
    ELSE parts[1] \o <<",">> \o JoinComma(Tail(parts))

RECURSIVE DictOf(_)
DictOf(items) ==
    IF items = <<>> THEN EmptyDict
    ELSE DictSet(DictOf(SubSeq(items, 1, Len(items) - 1)),
                 items[Len(items)].key, items[Len(items)].value)

ReportedLabels(form, labels) ==
    IF ~labels.some THEN JsonNull
    ELSE IF form.runtime = "podman" THEN JsonDict(DictOf(labels.val))
    ELSE JsonStr(JoinComma([i \in 1..Len(labels.val) |->
                               labels.val[i].key \o <<"=">> \o labels.val[i].value]))

ReportedNames(form, names) ==
    LET shown == [i \in 1..Len(names) |->
                     IF form.slash THEN <<"/">> \o names[i] ELSE names[i]]
    IN IF form.runtime = "podman" THEN JsonList(shown) ELSE JsonStr(JoinComma(shown))

PsOutput(form, held) ==
    [i \in 1..Len(held) |->
        [Names |-> ReportedNames(form, held[i].names),
         Labels |-> ReportedLabels(form, held[i].labels),
         State |-> held[i].state]]

InitInventory ==
    /\ \E held \in BSeq(RuntimeContainers, MaxRecords), form \in ReportForms,
          n \in {<<"box">>, <<"ghost">>} :
          fnIn = [held |-> held, form |-> form, ps |-> PsOutput(form, held),
                  container_name |-> n]
    /\ fnOut = Pending
    /\ containers = [n \in ContainerNames |-> Absent]
    /\ dataDirs = {}
    /\ cmd = "none"
    /\ args = NoArgs
    /\ pc = "idle"
    /\ locals = NoLocals
    /\ trace = <<>>
    /\ exitCode = -1
    /\ pre = [containers |-> containers, dataDirs |-> dataDirs]
    /\ etc = <<>>
    /\ idLog = <<>>
    /\ peer = NoPeer

apply_container_predicates ==
    /\ ~fnOut.done
    /\ fnOut' = [done |-> TRUE,
                 value |-> [exists |-> container_exists_by_name(fnIn.ps, fnIn.container_name),
                            running |-> container_is_running_by_name(fnIn.ps, fnIn.container_name),
                            mim |-> container_is_mim_by_name(fnIn.ps, fnIn.container_name)]]
    /\ UNCHANGED <<containers, dataDirs, cmd, args, pc, locals, trace, exitCode, pre,
                   fnIn, etc, idLog, peer>>

NextInventory == apply_container_predicates

SpecInventory == InitInventory /\ [][NextInventory]_vars

\* the containers the runtime holds under the requested name
HeldNamed(held, n) == SelectSeq(held, LAMBDA c : InSeq(n, c.names))

\* the first container under the name carries the label mim=1
HeldIsMim(held, n) ==
    /\ HeldNamed(held, n) # <<>>
    /\ LET labels == HeldNamed(held, n)[1].labels
       IN labels.some /\ InSeq(Label(<<"mim">>, <<"1">>), labels.val)

\* C21: container_is_mim is true exactly when the container's labels map
\* "mim" to "1", whether the runtime reports the labels as a mapping or as
\* the comma-joined string of the same labels; absent labels give false.
C21_MimIffLabel ==
    fnOut.done => (fnOut.value.mim <=> HeldIsMim(fnIn.held, fnIn.container_name))

\* C28: the three predicates find a container by its name whether the
\* runtime reports the names as a list or a comma-joined string, with or
\* without a leading "/"; a name no container carries gives false for all.
C28_LookupByNormalizedName ==
    fnOut.done =>
        LET named == HeldNamed(fnIn.held, fnIn.container_name)
        IN /\ fnOut.value.exists <=> named # <<>>
           /\ fnOut.value.running <=> (named # <<>> /\ named[1].state = "running")
           /\ named = <<>> => ~fnOut.value.running /\ ~fnOut.value.mim

C28_Witness ==
    /\ fnOut.done
    /\ fnIn.form = [runtime |-> "docker", slash |-> TRUE]
    /\ Len(fnIn.held) = 2
    /\ InSeq(<<"box">>, fnIn.held[2].names) /\ ~InSeq(<<"box">>, fnIn.held[1].names)
    /\ Len(fnIn.held[2].names) = 2
    /\ fnIn.container_name = <<"box">>
    /\ fnOut.value.exists /\ fnOut.value.running

(***************************************************************************)
(* parse_container_json (containers.py).  A document is a sequence of      *)
(* tokens: "[", "]", ",", " ", "\n" and one token per JSON object.         *)
(***************************************************************************)
JsonObjects == {"{a}", "{b}", "{c}"}

IsWs(t) == t = " " \/ t = "\n"

\* str.strip() of a document: blanks and newlines go
RECURSIVE StripWs(_)
StripWs(s) ==
    IF s # <<>> /\ IsWs(Head(s)) THEN StripWs(Tail(s))
    ELSE IF s # <<>> /\ IsWs(s[Len(s)]) THEN StripWs(SubSeq(s, 1, Len(s) - 1))
    ELSE s

JsonObj(o) == [kind |-> "obj", obj |-> o, items |-> <<>>]
JsonArr(items) == [kind |-> "list", obj |-> "", items |-> items]
Decoded(v) == [ok |-> TRUE, value |-> v]
JSONDecodeError == [ok |-> FALSE, value |-> <<>>]

\* json.loads on one object or one array of objects; whitespace between
\* tokens is insignificant, anything else raises JSONDecodeError
json_loads(text) ==
    LET t == SelectSeq(text, LAMBDA x : ~IsWs(x))
    IN IF Len(t) = 1 /\ t[1] \in JsonObjects THEN Decoded(JsonObj(t[1]))
       ELSE IF Len(t) >= 2 /\ t[1] = "[" /\ t[Len(t)] = "]"
       THEN LET inner == SubSeq(t, 2, Len(t) - 1)
                parts == Split(inner, ",")
            IN IF inner = <<>> THEN Decoded(JsonArr(<<>>))
               ELSE IF \A i \in 1..Len(parts) :
                          Len(parts[i]) = 1 /\ parts[i][1] \in JsonObjects
               THEN Decoded(JsonArr([i \in 1..Len(parts) |-> JsonObj(parts[i][1])]))
               ELSE JSONDecodeError
       ELSE JSONDecodeError

\* the fallback loop: every non-blank line is decoded on its own; a line
\* that does not decode raises out of parse_container_json
RECURSIVE ParseLines(_, _)
ParseLines(acc, lines) ==
    IF lines = <<>> THEN Decoded(acc)
    ELSE IF StripWs(Head(lines)) = <<>> THEN ParseLines(acc, Tail(lines))
    ELSE LET r == json_loads(Head(lines))
         IN IF r.ok THEN ParseLines(Append(acc, r.value), Tail(lines))
            ELSE JSONDecodeError

parse_container_json_unwrapped(json_output) ==
    IF StripWs(json_output) = <<>> THEN Decoded(<<>>)
    ELSE LET result == json_loads(json_output)
         IN IF result.ok
            THEN Decoded(result.value.items)
            ELSE ParseLines(<<>>, Split(StripWs(json_output), "\n"))

parse_container_json(json_output) ==
    IF StripWs(json_output) = <<>> THEN Decoded(<<>>)
    ELSE LET result == json_loads(json_output)
         IN IF result.ok
            THEN Decoded(IF result.value.kind = "list" THEN result.value.items
                         ELSE <<result.value>>)
            ELSE ParseLines(<<>>, Split(StripWs(json_output), "\n"))

RECURSIVE JoinWith(_, _)
JoinWith(parts, sep) ==
    IF parts = <<>> THEN <<>>
    ELSE IF Len(parts) = 1 THEN parts[1]
    ELSE parts[1] \o sep \o JoinWith(Tail(parts), sep)

\* how a runtime writes a list of objects
JsonStyles == {"array", "indented array", "jsonl", "jsonl, no final newline"}

Serialized(style, objects) ==
    LET docs == [i \in 1..Len(objects) |-> <<objects[i]>>]
    IN CASE style = "array" -> <<"[">> \o JoinWith(docs, <<",", " ">>) \o <<"]">>
         [] style = "indented array" ->
               IF objects = <<>> THEN <<"[", "]", "\n">>
               ELSE <<"[", "\n", " ">> \o JoinWith(docs, <<",", "\n", " ">>)
                    \o <<"\n", "]", "\n">>
         [] style = "jsonl" ->
               IF objects = <<>> THEN <<>> ELSE JoinWith(docs, <<"\n">>) \o <<"\n">>
         [] style = "jsonl, no final newline" -> JoinWith(docs, <<"\n">>)

BlankOutputs == {<<>>, <<"\n">>, <<" ", "\n">>}

InitJson ==
    /\ \/ \E objects \in BSeq(JsonObjects, MaxRecords), style \in JsonStyles :
             fnIn = [objects |-> objects, style |-> style,
                     json_output |-> Serialized(style, objects)]
       \/ \E blank \in BlankOutputs :
             fnIn = [objects |-> <<>>, style |-> "blank", json_output |-> blank]
    /\ fnOut = Pending
    /\ containers = [n \in ContainerNames |-> Absent]
    /\ dataDirs = {}
    /\ cmd = "none"
    /\ args = NoArgs
    /\ pc = "idle"
    /\ locals = NoLocals
    /\ trace = <<>>
    /\ exitCode = -1
    /\ pre = [containers |-> containers, dataDirs |-> dataDirs]
    /\ etc = <<>>
    /\ idLog = <<>>
    /\ peer = NoPeer

apply_parse_container_json ==
    /\ ~fnOut.done
    /\ fnOut' = [done |-> TRUE, value |-> parse_container_json(fnIn.json_output)]
    /\ UNCHANGED <<containers, dataDirs, cmd, args, pc, locals, trace, exitCode, pre,
                   fnIn, etc, idLog, peer>>

NextJson == apply_parse_container_json

SpecJson == InitJson /\ [][NextJson]_vars

\* C22: a list of objects written one per line parses to the same sequence
\* as the same list written as one JSON array, the empty and the
\* one-element list included; blank input parses to the empty sequence.
C22_ArrayEqualsJsonl ==
    fnOut.done =>
        /\ fnOut.value.ok
        /\ fnOut.value = parse_container_json(Serialized("array", fnIn.objects))
        /\ fnIn.style = "blank" => fnOut.value.value = <<>>

C22_Witness ==
    /\ fnOut.done
    /\ fnIn.style = "jsonl"
    /\ Len(fnIn.objects) = 1
    /\ fnOut.value.value = <<JsonObj(fnIn.objects[1])>>

(***************************************************************************)
(* Path Mapper: map_host_path_to_container, called at cli.py:579.          *)
(***************************************************************************)
IsPrefixOf(a, b) == Len(a) <= Len(b) /\ SubSeq(b, 1, Len(a)) = a

\* the canonical components of a mount's source
MountSource(mount) == Comps(normalize_host_path(mount.source))

\* the first mount in the table takes the path
map_host_path_to_container_first_match(host_path, mounts) ==
    LET host == Comps(normalize_host_path(host_path))
        matching == {i \in 1..Len(mounts) : IsPrefixOf(MountSource(mounts[i]), host)}
    IN IF matching = {} THEN None
       ELSE LET best == CHOOSE i \in matching : \A j \in matching : i <= j
                remainder == SubSeq(host, Len(MountSource(mounts[best])) + 1, Len(host))
            IN IF remainder = <<>> THEN Some(mounts[best].destination)
               ELSE Some(posixpath_join(mounts[best].destination, JoinComps(remainder)))

\* the mount with the longest matching source takes the path (the first of
\* them in the table when several sources are equally long)
map_host_path_to_container(host_path, mounts) ==
    LET host == Comps(normalize_host_path(host_path))
        matching == {i \in 1..Len(mounts) : IsPrefixOf(MountSource(mounts[i]), host)}
    IN IF matching = {} THEN None
       ELSE LET best == CHOOSE i \in matching :
                            \A j \in matching :
                                \/ Len(MountSource(mounts[j])) < Len(MountSource(mounts[i]))
                                \/ /\ Len(MountSource(mounts[j])) = Len(MountSource(mounts[i]))
                                   /\ i <= j
                remainder == SubSeq(host, Len(MountSource(mounts[best])) + 1, Len(host))
            IN IF remainder = <<>> THEN Some(mounts[best].destination)
               ELSE Some(posixpath_join(mounts[best].destination, JoinComps(remainder)))

Mount(s, d) == [source |-> s, destination |-> d]

\* the entries of a container's mount table (get_container_mounts)
MountEntries ==
    { Mount(<<"/", "home", "/", "u">>, <<"/", "c", "/", "u">>),
      Mount(<<"/", "home", "/", "u", "/", "proj">>, <<"/", "c", "/", "proj">>),
      Mount(<<"/", "home", "/", "me">>, <<"/", "c", "/", "me">>),
      Mount(<<"/", "data">>, <<"/", "c", "/", "data">>) }

\* the working directories shell may be started from (os.getcwd)
HostCwds ==
    { <<"/", "home", "/", "u", "/", "proj", "/", "x">>,
      <<"/", "home", "/", "u", "/", "proj">>,
      <<"/", "home", "/", "u">>,
      <<"/", "home", "/", "user">>,
      <<"/", "home", "/", "u", "/", "out", "/", "x">>,
      <<"/", "tmp">> }

InitPathMap ==
    /\ fnIn \in [host_cwd : HostCwds, container_mounts : BSeq(MountEntries, MaxMounts)]
    /\ fnOut = Pending
    /\ containers = [n \in ContainerNames |-> Absent]
    /\ dataDirs = {}
    /\ cmd = "none"
    /\ args = NoArgs
    /\ pc = "idle"
    /\ locals = NoLocals
    /\ trace = <<>>
    /\ exitCode = -1
    /\ pre = [containers |-> containers, dataDirs |-> dataDirs]
    /\ etc = <<>>
    /\ idLog = <<>>
    /\ peer = NoPeer

apply_map_host_path_to_container ==
    /\ ~fnOut.done
    /\ fnOut' = [done |-> TRUE,
                 value |-> map_host_path_to_container(fnIn.host_cwd,
                                                      fnIn.container_mounts)]
    /\ UNCHANGED <<containers, dataDirs, cmd, args, pc, locals, trace, exitCode, pre,
                   fnIn, etc, idLog, peer>>

NextPathMap == apply_map_host_path_to_container

SpecPathMap == InitPathMap /\ [][NextPathMap]_vars

Reversed(s) == [i \in 1..Len(s) |-> s[Len(s) + 1 - i]]

\* C23: the result is none exactly when no mount's source is a
\* component-wise prefix of the canonical host path; otherwise it is the
\* destination of a matching mount no other matching mount has a longer
\* source than, verbatim on an exact match and joined with the remainder
\* otherwise; with distinct sources the order of the table does not matter.
C23_LongestMountWins ==
    fnOut.done =>
        LET host == Comps(normalize_host_path(fnIn.host_cwd))
            mounts == fnIn.container_mounts
            matching == {i \in 1..Len(mounts) : IsPrefixOf(MountSource(mounts[i]), host)}
        IN /\ fnOut.value.some <=> matching # {}
           /\ fnOut.value.some =>
                 \E i \in matching :
                    /\ \A j \in matching :
                          Len(MountSource(mounts[j])) <= Len(MountSource(mounts[i]))
                    /\ LET remainder == SubSeq(host, Len(MountSource(mounts[i])) + 1,
                                               Len(host))
                       IN fnOut.value.val =
                             IF remainder = <<>> THEN mounts[i].destination
                             ELSE mounts[i].destination \o <<"/">> \o JoinComps(remainder)
           /\ (\A i, j \in 1..Len(mounts) :
                  i # j => MountSource(mounts[i]) # MountSource(mounts[j]))
              => fnOut.value = map_host_path_to_container(fnIn.host_cwd, Reversed(mounts))

C23_Witness ==
    /\ fnOut.done
    /\ fnIn.host_cwd = <<"/", "home", "/", "u", "/", "proj", "/", "x">>
    /\ fnIn.container_mounts =
          << Mount(<<"/", "home", "/", "u">>, <<"/", "c", "/", "u">>),
             Mount(<<"/", "home", "/", "u", "/", "proj">>, <<"/", "c", "/", "proj">>) >>
    /\ fnOut.value = Some(<<"/", "c", "/", "proj", "/", "x">>)

PrivilegedExecs(t) == {i \in 1..Len(t) : t[i].op = "exec" /\ t[i].user = "0:0"}

\* C24: in a non-root shell request on docker every writability probe exec
\* comes after a successful exec as 0:0 that creates and chowns the home;
\* on podman no exec runs as 0:0 (no home preparation, no identity
\* reconciliation) and the probe and the interactive exec carry no --user.
C24_PrivilegedHomePrepDockerOnly ==
    NonRootShell =>
        /\ args.runtime = "docker" =>
              \A i \in ExecsAt(trace, "probe_writable") :
                 \E j \in ExecsAt(trace, "ensure_home") :
                    j < i /\ trace[j].user = "0:0" /\ trace[j].ok
        /\ args.runtime = "podman" =>
              /\ PrivilegedExecs(trace) = {}
              /\ ExecsAt(trace, "ensure_home") = {} /\ ExecsAt(trace, "identity") = {}
              /\ \A i \in ExecsAt(trace, "probe_writable") \cup ExecsAt(trace, "interactive") :
                    trace[i].user = ""

C24_Witness ==
    /\ NonRootShell /\ args.runtime = "docker" /\ pc = "done"
    /\ ExecsAt(trace, "ensure_home") # {}
    /\ ExecsAt(trace, "probe_writable") # {}
    /\ ExecsAt(trace, "interactive") # {}
    /\ \A i \in ExecsAt(trace, "probe_writable") \cup ExecsAt(trace, "interactive") :
          trace[i].user = HostUserArg

EnvOrder == <<"HISTFILE", "ZDOTDIR", "USER", "LOGNAME">>

EnvRank(key) == CHOOSE r \in 1..Len(EnvOrder) : EnvOrder[r] = key

\* the environment of an exec after its leading HOME entry
AssembledEnv(call) == Tail(call.env)

InEnvOrder(env) ==
    /\ EnvKeys(env) \subseteq Elems(EnvOrder)
    /\ \A i, j \in 1..Len(env) : i < j => EnvRank(env[i][1]) < EnvRank(env[j][1])

ShellName == Basename(locals.shell_command_args[1])

HistoryAndIdentityEnv(env) ==
    /\ "HISTFILE" \in EnvKeys(env) <=> ShellName \in {<<"zsh">>, <<"bash">>}
    /\ ShellName = <<"zsh">> =>
          EnvValues(env, "HISTFILE") \subseteq
              {CONTAINER_SHELL_HISTORY_DIR \o <<"/", ".zsh_history">>}
    /\ ShellName = <<"bash">> =>
          EnvValues(env, "HISTFILE") \subseteq
              {CONTAINER_SHELL_HISTORY_DIR \o <<"/", ".bash_history">>}
    /\ "USER" \in EnvKeys(env) <=> "LOGNAME" \in EnvKeys(env)
    /\ "USER" \in EnvKeys(env) <=>
          (args.runtime = "docker" /\ locals.resolved_username # NoneStr)

\* C25 as stated: the environment of a non-root shell is a subsequence of
\* HISTFILE, ZDOTDIR, USER, LOGNAME; HISTFILE iff the shell is zsh or bash,
\* ZDOTDIR iff the shell is zsh and MIM_ZDOTDIR is defined non-empty,
\* USER and LOGNAME iff docker resolved a username.
C25_EnvAssembly ==
    NonRootShell =>
        \A i \in ExecsAt(trace, "interactive") :
            LET env == AssembledEnv(trace[i])
            IN /\ InEnvOrder(env)
               /\ HistoryAndIdentityEnv(env)
               /\ "ZDOTDIR" \in EnvKeys(env) <=>
                     (ShellName = <<"zsh">> /\ locals.container_env.MIM_ZDOTDIR # <<>>)

\* C25 amended: ZDOTDIR iff the shell is zsh and MIM_ZDOTDIR is non-empty
\* after trimming whitespace; the rest as stated.
C25_EnvAssemblyTrimmed ==
    NonRootShell =>
        \A i \in ExecsAt(trace, "interactive") :
            LET env == AssembledEnv(trace[i])
            IN /\ InEnvOrder(env)
               /\ HistoryAndIdentityEnv(env)
               /\ "ZDOTDIR" \in EnvKeys(env) <=>
                     (ShellName = <<"zsh">> /\ Strip(locals.container_env.MIM_ZDOTDIR) # <<>>)

C25_Witness ==
    /\ NonRootShell /\ pc = "done" /\ args.runtime = "docker"
    /\ \E i \in ExecsAt(trace, "interactive") :
          [k \in 1..Len(AssembledEnv(trace[i])) |-> AssembledEnv(trace[i])[k][1]] = EnvOrder

\* the files one run of the identity script started from
FilesBefore(k) == IF k = 1 THEN fnIn.files ELSE idLog[k - 1]

HasId(lines, field, id) == \E i \in 1..Len(lines) : lines[i][field] = id

\* the lines a file had are still its first lines, and at most one follows
AppendedOnly(before, after) ==
    /\ Len(after.lines) >= Len(before.lines)
    /\ SubSeq(after.lines, 1, Len(before.lines)) = before.lines
    /\ Len(after.lines) <= Len(before.lines) + 1

\* C26: a run of the identity script leaves every existing line of
\* /etc/group and /etc/passwd as it was and adds at most one line to each,
\* a group line only when no entry had the host GID and a passwd line only
\* when no entry had the host UID; afterwards /etc/group has an entry with
\* the host GID and /etc/passwd an entry with the host UID whose name is the
\* username the run prints.
C26_AppendOnly ==
    \A k \in 1..Len(idLog) :
        LET before == FilesBefore(k)
            after == idLog[k]
            id == fnIn.identity
        IN /\ AppendedOnly(before.group, after.group)
           /\ AppendedOnly(before.passwd, after.passwd)
           /\ after.group # before.group => ~HasId(before.group.lines, "gid", id.gid)
           /\ after.passwd # before.passwd => ~HasId(before.passwd.lines, "uid", id.uid)
           /\ HasId(after.group.lines, "gid", id.gid)
           /\ \E i \in 1..Len(after.passwd.lines) :
                 /\ after.passwd.lines[i].uid = id.uid
                 /\ after.passwd.lines[i].name = after.username

\* the entries a run added to a file
Added(before, after) ==
    {after.lines[i] : i \in (Len(before.lines) + 1)..Len(after.lines)}

\* C27: the entry a run appends to /etc/group shares its name with no entry
\* of another GID, and the entry it appends to /etc/passwd shares its name
\* with no entry of another UID.
C27_NoNameClash ==
    \A k \in 1..Len(idLog) :
        LET before == FilesBefore(k)
            after == idLog[k]
        IN /\ \A e \in Added(before.group, after.group) :
                 \A i \in 1..Len(after.group.lines) :
                    after.group.lines[i].name = e.name => after.group.lines[i].gid = e.gid
           /\ \A e \in Added(before.passwd, after.passwd) :
                 \A i \in 1..Len(after.passwd.lines) :
                    after.passwd.lines[i].name = e.name => after.passwd.lines[i].uid = e.uid

\* C29: the interactive exec of shell has a working directory: the mapped
\* container path when the host working directory maps into the container,
\* else '/root' for a root shell and, for a non-root shell, the home the
\* successful writability probe ran with.
C29_WorkdirMappedOrHome ==
    (cmd = "shell" /\ pc # "idle") =>
        \A i \in ExecsAt(trace, "interactive") :
            /\ trace[i].workdir # NoPath
            /\ locals.container_cwd # NoPath => trace[i].workdir = locals.container_cwd
            /\ (locals.container_cwd = NoPath /\ locals.shell_as_root)
                  => trace[i].workdir = <<"/", "root">>
            /\ (locals.container_cwd = NoPath /\ ~locals.shell_as_root)
                  => \E p \in ExecsAt(trace, "probe_writable") :
                        /\ p < i /\ trace[p].ok
                        /\ EnvValues(trace[p].env, "HOME") = {trace[i].workdir}

C29_Witness ==
    /\ cmd = "shell" /\ pc = "done" /\ ~locals.shell_as_root
    /\ locals.container_cwd = NoPath
    /\ \E i \in ExecsAt(trace, "interactive") :
          trace[i].workdir = <<"/", "home", "/", "u">>

(***************************************************************************)
(* The host identity (shell_helpers.py get_host_identity).  Names are      *)
(* sequences of characters here.                                           *)
(***************************************************************************)
AsciiLetters ==
    {"a", "d", "e", "g", "i", "j", "m", "o", "p", "r", "s", "u", "U"}
AsciiDigits == {"0", "1", "2", "3", "4", "5", "6", "7", "8", "9"}

\* [A-Za-z0-9_-]* to the end of the name
RECURSIVE MatchesTail(_)
MatchesTail(name) ==
    \/ name = <<>>
    \/ /\ Head(name) \in AsciiLetters \cup AsciiDigits \cup {"_", "-"}
       /\ MatchesTail(Tail(name))

\* _IDENTITY_NAME_PATTERN.fullmatch(name) is not None
IDENTITY_NAME_PATTERN_fullmatch(name) ==
    /\ name # <<>>
    /\ Head(name) \in AsciiLetters \cup {"_"}
    /\ MatchesTail(Tail(name))

\* a bug: the name is taken as it is
sanitize_identity_name_unchecked(name, fallback) == name

sanitize_identity_name(name, fallback) ==
    IF IDENTITY_NAME_PATTERN_fullmatch(name) THEN name ELSE fallback

DigitChars == <<"0", "1", "2", "3", "4", "5", "6", "7", "8", "9">>

\* str(n) of a non-negative integer
RECURSIVE Decimal(_)
Decimal(n) ==
    IF n < 10 THEN <<DigitChars[n + 1]>>
    ELSE Decimal(n \div 10) \o <<DigitChars[(n % 10) + 1]>>

mimuser(uid) == <<"m", "i", "m", "u", "s", "e", "r">> \o Decimal(uid)
mimgroup(gid) == <<"m", "i", "m", "g", "r", "o", "u", "p">> \o Decimal(gid)

\* what get_host_identity returns, given the host's answers: the names of
\* pwd.getpwuid and grp.getgrgid (none on KeyError) and the USER and GROUP
\* variables of the environment (none when unset)
get_host_identity(uid, gid, pw_name, gr_name, env_user, env_group) ==
    LET fallback_username == IF env_user.some THEN env_user.val ELSE mimuser(uid)
        fallback_groupname == IF env_group.some THEN env_group.val ELSE mimgroup(gid)
        username == IF pw_name.some THEN pw_name.val ELSE fallback_username
        groupname == IF gr_name.some THEN gr_name.val ELSE fallback_groupname
    IN [uid |-> uid, gid |-> gid,
        username |-> sanitize_identity_name(username, mimuser(uid)),
        groupname |-> sanitize_identity_name(groupname, mimgroup(gid))]

\* names a host can hold: plain, with a dot, starting with a digit, with a
\* blank, with a quote, ending with a newline, with an at sign, empty
HostNames ==
    { <<"u">>, <<"_", "u", "-", "1">>, <<"j", ".", "d">>, <<"9", "u">>,
      <<"a", " ", "d">>, <<"o", "'", "r">>, <<"u", "\n">>, <<"u", "@">>, <<>> }

Lookups == {None} \cup {Some(n) : n \in HostNames}

HostIds == {0, 1000, 65534}

InitHostIdentity ==
    /\ fnIn \in [uid : HostIds, gid : {0, 1000}, pw_name : Lookups, gr_name : Lookups,
                 env_user : {None, Some(<<"j", ".", "d">>), Some(<<"u">>)},
                 env_group : {None, Some(<<"a", " ", "d">>), Some(<<"u">>)}]
    /\ fnOut = Pending
    /\ containers = [n \in ContainerNames |-> Absent]
    /\ dataDirs = {}
    /\ cmd = "none"
    /\ args = NoArgs
    /\ pc = "idle"
    /\ locals = NoLocals
    /\ trace = <<>>
    /\ exitCode = -1
    /\ pre = [containers |-> containers, dataDirs |-> dataDirs]
    /\ etc = <<>>
    /\ idLog = <<>>
    /\ peer = NoPeer

apply_get_host_identity ==
    /\ ~fnOut.done
    /\ fnOut' = [done |-> TRUE,
                 value |-> get_host_identity(fnIn.uid, fnIn.gid, fnIn.pw_name,
                                             fnIn.gr_name, fnIn.env_user, fnIn.env_group)]
    /\ UNCHANGED <<containers, dataDirs, cmd, args, pc, locals, trace, exitCode, pre,
                   fnIn, etc, idLog, peer>>

NextHostIdentity == apply_get_host_identity

SpecHostIdentity == InitHostIdentity /\ [][NextHostIdentity]_vars

\* a name of the form [A-Za-z_][A-Za-z0-9_-]*
SafeIdentifier(name) ==
    /\ Len(name) >= 1
    /\ name[1] \in AsciiLetters \cup {"_"}
    /\ \A i \in 2..Len(name) : name[i] \in AsciiLetters \cup AsciiDigits \cup {"_", "-"}

\* the name the host offers: the looked-up one, else the environment's,
\* else the synthesized one
Offered(lookup, env, synthesized) ==
    IF lookup.some THEN lookup.val ELSE IF env.some THEN env.val ELSE synthesized

\* C30: the username and the groupname of the host identity are safe
\* identifiers: the offered name when it is one, and mimuser<uid> /
\* mimgroup<gid>, themselves safe identifiers, when it is not.
C30_SafeIdentityNames ==
    fnOut.done =>
        LET id == fnOut.value
            user == Offered(fnIn.pw_name, fnIn.env_user, mimuser(fnIn.uid))
            group == Offered(fnIn.gr_name, fnIn.env_group, mimgroup(fnIn.gid))
        IN /\ SafeIdentifier(id.username) /\ SafeIdentifier(id.groupname)
           /\ SafeIdentifier(mimuser(fnIn.uid)) /\ SafeIdentifier(mimgroup(fnIn.gid))
           /\ id.username = IF SafeIdentifier(user) THEN user ELSE mimuser(fnIn.uid)
           /\ id.groupname = IF SafeIdentifier(group) THEN group ELSE mimgroup(fnIn.gid)

C30_Witness ==
    /\ fnOut.done
    /\ fnIn.uid = 1000
    /\ fnIn.pw_name = Some(<<"j", ".", "d">>)
    /\ fnIn.gr_name = None /\ fnIn.env_group = Some(<<"a", " ", "d">>)
    /\ fnOut.value.username = <<"m", "i", "m", "u", "s", "e", "r", "1", "0", "0", "0">>
    /\ fnOut.value.groupname = mimgroup(fnIn.gid)

(***************************************************************************)
(* The order of the calls of destroy, start, stop, create and a root shell *)
(***************************************************************************)
\* the calls of a trace other than the read-only ps and inspect, by name
ActingOps(t) ==
    LET acting == SelectSeq(t, LAMBDA c : c.op \notin {"ps", "inspect"})
    IN [i \in 1..Len(acting) |-> acting[i].op]

\* C31: destroy --force on a running mim container issues stop (timeout 1),
\* then the removal of the data directory, then rm, in that order; on a mim
\* container that is not running no stop is issued and the order is removal
\* of the data directory, then rm; a data directory that is already absent
\* is no error, rm follows it all the same.
C31_DestroyOrder ==
    (cmd = "destroy" /\ PreMim) =>
        LET ops == ActingOps(trace)
            full == IF PreRunning
                    THEN IF args.force THEN <<"stop", "rmtree", "rm">> ELSE <<>>
                    ELSE <<"rmtree", "rm">>
        IN /\ IsPrefixOf(ops, full)
           /\ \A i \in 1..Len(trace) : trace[i].op = "stop" => trace[i].timeout = "1"
           /\ (pc = "done" /\ exitCode = 0) => ops = full
           /\ (pc = "done" /\ InSeq("rmtree", ops)) => InSeq("rm", ops)

C31_Witness ==
    /\ cmd = "destroy" /\ PreMim /\ PreRunning /\ args.force
    /\ Target \notin pre.dataDirs
    /\ pc = "done" /\ exitCode = 0
    /\ ActingOps(trace) = <<"stop", "rmtree", "rm">>

\* C32: start on a mim container that is running and stop on one that is
\* not running issue no start or stop call, change nothing and end with
\* exit code 0; otherwise start issues exactly one start and stop exactly
\* one stop with the given timeout.
C32_StartStopNoOp ==
    (cmd \in {"start", "stop"} /\ PreMim) =>
        LET ops == ActingOps(trace)
            noop == (cmd = "start") <=> PreRunning
        IN /\ noop => /\ ops = <<>>
                      /\ WorldAsBefore
                      /\ pc = "done" => exitCode = 0
           /\ ~noop => /\ IsPrefixOf(ops, <<cmd>>)
                       /\ pc = "done" => ops = <<cmd>>
           /\ \A i \in 1..Len(trace) :
                 trace[i].op = "stop" => trace[i].timeout = args.timeout

C32_Witness ==
    /\ cmd = "start" /\ PreMim /\ PreRunning
    /\ pc = "done" /\ exitCode = 0
    /\ Ops(trace) = {"ps"}

\* the name create gives the container: the image's when none is given
CreateName == IF args.container_name = NoneStr THEN args.image_name ELSE args.container_name

\* C33: create ends with exit code 1, makes no data directory and issues no
\* runtime create when a container of the target name (the image name when
\* no name is given) already exists or the image does not exist; both
\* checks come before any input is validated; a create that ends with exit
\* code 0 has created the container with the label mim=1.
C33_CreatePreconditions ==
    (cmd = "create" /\ pc # "idle") =>
        /\ (pre.containers[CreateName].exists \/ args.image_name \notin ExistingImages) =>
              /\ pc \in {"create_exists", "create_image", "done"}
              /\ Ops(trace) \subseteq {"ps", "image_exists", "image_inspect"}
              /\ WorldAsBefore
              /\ locals.raw = <<>>
              /\ pc = "done" =>
                    /\ exitCode = 1
                    /\ locals.error =
                          IF pre.containers[CreateName].exists THEN "ContainerExists"
                          ELSE "ImageNotFound"
        /\ (pc = "done" /\ exitCode = 0) =>
              /\ containers[CreateName].exists
              /\ <<"mim", "1">> \in containers[CreateName].labels
              /\ \E i \in 1..Len(trace) :
                    /\ trace[i].op = "create" /\ trace[i].container = CreateName
                    /\ <<"mim", "1">> \in trace[i].labels

C33_Witness ==
    /\ cmd = "create" /\ pc = "done" /\ exitCode = 1
    /\ args.container_name = NoneStr
    /\ pre.containers[args.image_name].exists
    /\ locals.error = "ContainerExists"
    /\ Ops(trace) = {"ps"}

\* the positions of shell before the root/non-root decision is taken
BeforeShellUser ==
    {"require_exists", "require_mim", "shell_running", "shell_start", "shell_running2",
     "shell_mounts", "shell_user"}

AllExecs(t) == {i \in 1..Len(t) : t[i].op = "exec"}

\* C34: a shell request resolved to root, by --as-root or, with neither
\* flag, by the container's shell-user label, runs its interactive exec as
\* 0:0 with no environment entry and issues no home-preparation,
\* writability-probe or identity exec (no other exec at all); --as-root
\* together with --as-user ends with exit code 1 and no exec.
C34_RootShell ==
    (cmd = "shell" /\ pc # "idle") =>
        /\ (args.as_root /\ args.as_user) =>
              /\ AllExecs(trace) = {}
              /\ ~locals.shell_as_root
              /\ pc \in BeforeShellUser \cup {"done"}
              /\ pc = "done" => exitCode = 1
        /\ (args.as_root /\ ~args.as_user /\ pc \notin BeforeShellUser \cup {"done"})
              => locals.shell_as_root
        /\ locals.shell_as_root => ~args.as_user
        /\ (locals.shell_as_root \/ (args.as_root /\ ~args.as_user)) =>
              /\ ExecKinds(trace) \cap {"ensure_home", "probe_writable", "identity"} = {}
              /\ \A i \in AllExecs(trace) :
                    /\ trace[i].kind = "interactive"
                    /\ trace[i].user = "0:0"
                    /\ trace[i].env = <<>>
              /\ (pc = "done" /\ exitCode = 0) => ExecsAt(trace, "interactive") # {}

C34_Witness ==
    /\ cmd = "shell" /\ pc = "done" /\ exitCode = 0
    /\ ~args.as_root /\ ~args.as_user /\ locals.shell_as_root
    /\ args.runtime = "docker"
    /\ ExecsAt(trace, "interactive") = {Len(trace)}
    /\ trace[Len(trace)].user = "0:0" /\ trace[Len(trace)].env = <<>>

====
